---- MODULE Spec2Model ----
(***************************************************************************)
(* Model of the FlowForge Ostium service: the HMAC request gate            *)
(* (app/middleware/hmac_auth.py) and the idempotency-guarded trade         *)
(* orchestration (app/services/ostium/*.py, app/services/ostium_adapter.py)*)
(*                                                                         *)
(* Time is one wall clock in milliseconds.  Strings are TLA+ strings and   *)
(* are processed character by character where the code inspects them.      *)
(* An optional value (a header, a payload field that may be None) is a     *)
(* sequence of length 0 (None) or 1.                                       *)
(***************************************************************************)
EXTENDS Integers, Sequences, FiniteSets, TLC

VARIABLES
    clock,          \* time.time(), in milliseconds
    ticks,          \* number of clock advances so far (bounded)
    hmac_secret,    \* Settings.hmac_secret
    last,           \* the request dispatched last and what dispatch did with it
    settings,       \* the Settings the managers read, and whether the SDK imported
    wired,          \* what serves the calls: the managers or the OstiumAdapter
    caches,         \* _idempotency_cache of each manager instance
    calls,          \* the mutating coroutines in flight, one per slot
    submissions,    \* how often a mutating SDK primitive has been invoked
    ok_log,         \* per operation and key: the latest successful return (time, payload)
    snapshot,       \* the caches and the clock when the latest call started
    evaluated       \* a pure helper applied to arguments: function, arguments, result

authvars == <<hmac_secret, last>>
tradevars == <<settings, wired, caches, calls, submissions, ok_log, snapshot>>
purevars == <<evaluated>>
vars == <<clock, ticks, hmac_secret, last, settings, wired, caches, calls, submissions,
          ok_log, snapshot, evaluated>>

None == <<>>
Some(v) == <<v>>

\* ------------------------------------------------------------------ bounds

MaxAuthTicks == 2
MaxTicks == 2
MaxCalls == 2
MaxSubmissions == 2

\* ------------------------------------------------------------------ strings

UpperMap ==
    [c \in {"a","b","c","d","e","f","g","h","i","j","k","l","m",
            "n","o","p","q","r","s","t","u","v","w","x","y","z"} |->
        CASE c = "a" -> "A" [] c = "b" -> "B" [] c = "c" -> "C" [] c = "d" -> "D"
          [] c = "e" -> "E" [] c = "f" -> "F" [] c = "g" -> "G" [] c = "h" -> "H"
          [] c = "i" -> "I" [] c = "j" -> "J" [] c = "k" -> "K" [] c = "l" -> "L"
          [] c = "m" -> "M" [] c = "n" -> "N" [] c = "o" -> "O" [] c = "p" -> "P"
          [] c = "q" -> "Q" [] c = "r" -> "R" [] c = "s" -> "S" [] c = "t" -> "T"
          [] c = "u" -> "U" [] c = "v" -> "V" [] c = "w" -> "W" [] c = "x" -> "X"
          [] c = "y" -> "Y" [] c = "z" -> "Z"]

CharAt(s, i) == SubSeq(s, i, i)

RECURSIVE UpperFrom(_, _)
UpperFrom(s, i) ==
    IF i > Len(s) THEN ""
    ELSE LET c == CharAt(s, i)
         IN (IF c \in DOMAIN UpperMap THEN UpperMap[c] ELSE c) \o UpperFrom(s, i + 1)

\* str.upper()
Upper(s) == UpperFrom(s, 1)

\* str.startswith(prefix)
StartsWith(s, prefix) ==
    /\ Len(s) >= Len(prefix)
    /\ SubSeq(s, 1, Len(prefix)) = prefix

DigitVal ==
    [c \in {"0","1","2","3","4","5","6","7","8","9"} |->
        CASE c = "0" -> 0 [] c = "1" -> 1 [] c = "2" -> 2 [] c = "3" -> 3
          [] c = "4" -> 4 [] c = "5" -> 5 [] c = "6" -> 6 [] c = "7" -> 7
          [] c = "8" -> 8 [] c = "9" -> 9]

RECURSIVE LStrip(_)
LStrip(s) == IF Len(s) > 0 /\ CharAt(s, 1) = " " THEN LStrip(SubSeq(s, 2, Len(s))) ELSE s

RECURSIVE RStrip(_)
RStrip(s) ==
    IF Len(s) > 0 /\ CharAt(s, Len(s)) = " " THEN RStrip(SubSeq(s, 1, Len(s) - 1)) ELSE s

\* The digits of an integer literal: decimal digits, single underscores
\* allowed between two digits.
RECURSIVE DigitsOk(_, _)
DigitsOk(s, i) ==
    IF i > Len(s) THEN TRUE
    ELSE LET c == CharAt(s, i)
         IN IF c \in DOMAIN DigitVal THEN DigitsOk(s, i + 1)
            ELSE /\ c = "_"
                 /\ i > 1 /\ i < Len(s)
                 /\ CharAt(s, i - 1) \in DOMAIN DigitVal
                 /\ CharAt(s, i + 1) \in DOMAIN DigitVal
                 /\ DigitsOk(s, i + 1)

RECURSIVE DigitsValue(_, _, _)
DigitsValue(s, i, acc) ==
    IF i > Len(s) THEN acc
    ELSE LET c == CharAt(s, i)
         IN IF c = "_" THEN DigitsValue(s, i + 1, acc)
            ELSE DigitsValue(s, i + 1, acc * 10 + DigitVal[c])

\* int(text): [ok |-> FALSE] stands for ValueError.
ParseInt(text) ==
    LET t == RStrip(LStrip(text))
        signed == Len(t) > 0 /\ CharAt(t, 1) \in {"+", "-"}
        digits == IF signed THEN SubSeq(t, 2, Len(t)) ELSE t
    IN IF Len(digits) > 0 /\ DigitsOk(digits, 1)
       THEN [ok |-> TRUE,
             value |-> IF signed /\ CharAt(t, 1) = "-"
                       THEN 0 - DigitsValue(digits, 1, 0)
                       ELSE DigitsValue(digits, 1, 0)]
       ELSE [ok |-> FALSE, value |-> 0]

Abs(n) == IF n < 0 THEN 0 - n ELSE n

\* ------------------------------------------------------------------ settings

\* Settings.hmac_timestamp_tolerance_ms (default)
hmac_timestamp_tolerance_ms == 300000

\* The secret the legitimate clients sign with, and a key of somebody else.
ClientSecret == "s3cret"
WrongSecret == "wrong"

\* ------------------------------------------------------------------ HMAC gate

\* hmac.new(key, msg, sha256).hexdigest(), as an ideal keyed hash: the digest
\* is determined by, and determines, the key and the message.
HexDigest(key, msg) == [kind |-> "hmac", key |-> key, msg |-> msg]

\* Header values that are no digest of anything: the empty string and a
\* string of hex digits that no key produced.
EmptySignature == [kind |-> "empty", key |-> "", msg |-> ""]
GarbageSignature == [kind |-> "garbage", key |-> "", msg |-> ""]

\* Mutant: the body is left out of the signed message.
CanonicalMessage_NoBody(timestamp, method, path, body) ==
    timestamp \o ":" \o Upper(method) \o ":" \o path \o ":"

\* f"{timestamp}:{request.method.upper()}:{request.url.path}:{body_str}"
CanonicalMessage(timestamp, method, path, body) ==
    timestamp \o ":" \o Upper(method) \o ":" \o path \o ":" \o body

JsonError(status, code, message) ==
    [forwarded |-> FALSE, status_code |-> status, code |-> code, message |-> message]

\* `return await call_next(request)`: the response is the handler's.
CallNext == [forwarded |-> TRUE, status_code |-> 0, code |-> "", message |-> ""]

\* The checks of dispatch on a /v1/ request once the secret is known to be set.
ClientChecks(secret, r, now_ms, exclusive, windowed) ==
    IF r.timestamp = None \/ r.timestamp = Some("")
            \/ r.signature = None \/ r.signature = Some(EmptySignature) THEN
        JsonError(401, "UNAUTHORIZED", "Missing required authentication headers")
    ELSE LET timestamp == r.timestamp[1]
             signature == r.signature[1]
             request_ts == ParseInt(timestamp)
             age == IF request_ts.ok THEN Abs(now_ms - request_ts.value) ELSE 0
         IN IF ~request_ts.ok THEN
                JsonError(401, "UNAUTHORIZED", "Invalid timestamp format")
            ELSE IF windowed /\ (age > hmac_timestamp_tolerance_ms
                                 \/ (exclusive /\ age = hmac_timestamp_tolerance_ms)) THEN
                JsonError(401, "UNAUTHORIZED",
                          "Request expired or timestamp too far in future")
            ELSE IF HexDigest(secret, CanonicalMessage(timestamp, r.method, r.path, r.body))
                        # signature THEN
                JsonError(401, "UNAUTHORIZED", "Invalid signature")
            ELSE CallNext

\* Mutant: every path under "/v1", the bare "/v1" included, is signed.
DispatchResponse_PrefixV1(secret, r, now_ms) ==
    IF r.path \in {"/health", "/ready"} THEN CallNext
    ELSE IF ~StartsWith(r.path, "/v1") THEN CallNext
    ELSE IF secret = "" THEN
        JsonError(500, "SERVER_MISCONFIGURED", "HMAC secret is not configured")
    ELSE ClientChecks(secret, r, now_ms, FALSE, TRUE)

\* Mutant: the tolerance is an exclusive bound.
DispatchResponse_ExclusiveWindow(secret, r, now_ms) ==
    IF r.path \in {"/health", "/ready"} THEN CallNext
    ELSE IF ~StartsWith(r.path, "/v1/") THEN CallNext
    ELSE IF secret = "" THEN
        JsonError(500, "SERVER_MISCONFIGURED", "HMAC secret is not configured")
    ELSE ClientChecks(secret, r, now_ms, TRUE, TRUE)

\* Mutant: the timestamp is parsed but its age is never checked.
DispatchResponse_NoWindow(secret, r, now_ms) ==
    IF r.path \in {"/health", "/ready"} THEN CallNext
    ELSE IF ~StartsWith(r.path, "/v1/") THEN CallNext
    ELSE IF secret = "" THEN
        JsonError(500, "SERVER_MISCONFIGURED", "HMAC secret is not configured")
    ELSE ClientChecks(secret, r, now_ms, FALSE, FALSE)

\* Mutant: the headers are looked at before the secret.
DispatchResponse_HeadersFirst(secret, r, now_ms) ==
    IF r.path \in {"/health", "/ready"} THEN CallNext
    ELSE IF ~StartsWith(r.path, "/v1/") THEN CallNext
    ELSE IF r.timestamp = None \/ r.timestamp = Some("")
            \/ r.signature = None \/ r.signature = Some(EmptySignature) THEN
        JsonError(401, "UNAUTHORIZED", "Missing required authentication headers")
    ELSE IF secret = "" THEN
        JsonError(500, "SERVER_MISCONFIGURED", "HMAC secret is not configured")
    ELSE ClientChecks(secret, r, now_ms, FALSE, TRUE)

\* HmacAuthMiddleware.dispatch, for request `r` at time `now_ms` with the
\* configured secret.
DispatchResponse(secret, r, now_ms) ==
    IF r.path \in {"/health", "/ready"} THEN CallNext
    ELSE IF ~StartsWith(r.path, "/v1/") THEN CallNext
    ELSE IF secret = "" THEN
        JsonError(500, "SERVER_MISCONFIGURED", "HMAC secret is not configured")
    ELSE IF r.timestamp = None \/ r.timestamp = Some("")
            \/ r.signature = None \/ r.signature = Some(EmptySignature) THEN
        JsonError(401, "UNAUTHORIZED", "Missing required authentication headers")
    ELSE LET timestamp == r.timestamp[1]
             signature == r.signature[1]
             request_ts == ParseInt(timestamp)
         IN IF ~request_ts.ok THEN
                JsonError(401, "UNAUTHORIZED", "Invalid timestamp format")
            ELSE IF Abs(now_ms - request_ts.value) > hmac_timestamp_tolerance_ms THEN
                JsonError(401, "UNAUTHORIZED",
                          "Request expired or timestamp too far in future")
            ELSE LET payload == CanonicalMessage(timestamp, r.method, r.path, r.body)
                     expected == HexDigest(secret, payload)
                 IN IF expected # signature THEN
                        JsonError(401, "UNAUTHORIZED", "Invalid signature")
                    ELSE CallNext

\* ------------------------------------------------------------------ more strings

LowerMap ==
    [c \in {"A","B","C","D","E","F","G","H","I","J","K","L","M",
            "N","O","P","Q","R","S","T","U","V","W","X","Y","Z"} |->
        CHOOSE l \in DOMAIN UpperMap : UpperMap[l] = c]

RECURSIVE LowerFrom(_, _)
LowerFrom(s, i) ==
    IF i > Len(s) THEN ""
    ELSE LET c == CharAt(s, i)
         IN (IF c \in DOMAIN LowerMap THEN LowerMap[c] ELSE c) \o LowerFrom(s, i + 1)

\* str.lower()
Lower(s) == LowerFrom(s, 1)

\* `sub in s`
Contains(s, sub) ==
    \E i \in 1..(Len(s) - Len(sub) + 1) : SubSeq(s, i, i + Len(sub) - 1) = sub

\* str.isdigit()
IsDigit(s) == Len(s) > 0 /\ \A i \in 1..Len(s) : CharAt(s, i) \in DOMAIN DigitVal

\* ------------------------------------------------------------------ errors

\* OstiumServiceError(code, message, status_code, retryable, details); the
\* message is carried where the code builds it from constants only.
ServiceError(code, status_code, retryable, details) ==
    [code |-> code, status_code |-> status_code, retryable |-> retryable,
     details |-> details]

Failed(error) == [ok |-> FALSE, error |-> error]
Returned(data) == [ok |-> TRUE, data |-> data]

\* Mutant: the timeout rule is tried first.
NormalizeSdkError_TimeoutFirst(operation, default_code, raw_error) ==
    LET lower_error == Lower(raw_error)
        details == Some([error |-> raw_error, operation |-> operation])
    IN IF Contains(lower_error, "timeout") \/ Contains(lower_error, "timed out") THEN
           ServiceError("OSTIUM_SERVICE_TIMEOUT", 504, Some(TRUE), details)
       ELSE IF Contains(lower_error, "sufficient allowance")
            \/ Contains(lower_error, "allowance for") THEN
           ServiceError("ALLOWANCE_MISSING", 400, Some(FALSE), details)
       ELSE IF Contains(lower_error, "delegation is not active")
            \/ Contains(lower_error, "delegation not active") THEN
           ServiceError("DELEGATION_NOT_ACTIVE", 400, Some(FALSE), details)
       ELSE IF Contains(lower_error, "safe wallet not found") THEN
           ServiceError("SAFE_WALLET_MISSING", 400, Some(FALSE), details)
       ELSE IF Contains(lower_error, "delegate wallet gas is low")
            \/ Contains(lower_error, "insufficient funds for gas") THEN
           ServiceError("DELEGATE_GAS_LOW", 400, Some(FALSE), details)
       ELSE ServiceError(default_code, 502, Some(TRUE), details)

\* BaseManager._normalize_sdk_error
NormalizeSdkError(operation, default_code, raw_error) ==
    LET lower_error == Lower(raw_error)
        details == Some([error |-> raw_error, operation |-> operation])
    IN IF Contains(lower_error, "sufficient allowance")
            \/ Contains(lower_error, "allowance for") THEN
           ServiceError("ALLOWANCE_MISSING", 400, Some(FALSE), details)
       ELSE IF Contains(lower_error, "delegation is not active")
            \/ Contains(lower_error, "delegation not active") THEN
           ServiceError("DELEGATION_NOT_ACTIVE", 400, Some(FALSE), details)
       ELSE IF Contains(lower_error, "safe wallet not found") THEN
           ServiceError("SAFE_WALLET_MISSING", 400, Some(FALSE), details)
       ELSE IF Contains(lower_error, "delegate wallet gas is low")
            \/ Contains(lower_error, "insufficient funds for gas") THEN
           ServiceError("DELEGATE_GAS_LOW", 400, Some(FALSE), details)
       ELSE IF Contains(lower_error, "timeout") \/ Contains(lower_error, "timed out") THEN
           ServiceError("OSTIUM_SERVICE_TIMEOUT", 504, Some(TRUE), details)
       ELSE ServiceError(default_code, 502, Some(TRUE), details)

\* ------------------------------------------------------------------ settings and SDK construction

\* BaseManager._network_rpc / _build_sdk: None when the SDK object is built,
\* else the error raised.
BuildSdk(cfg, network) ==
    IF ~cfg.ostium_enabled THEN Some(ServiceError("OSTIUM_DISABLED", 503, Some(FALSE), None))
    ELSE IF ~cfg.sdk_imported THEN
        Some(ServiceError("SDK_UNAVAILABLE", 503, Some(FALSE), None))
    ELSE IF network \notin {"testnet", "mainnet"} THEN
        Some(ServiceError("INVALID_NETWORK", 400, Some(FALSE), None))
    ELSE None

\* BaseManager._ensure_delegate_key
EnsureDelegateKey(cfg) ==
    IF ~cfg.delegate_key_set THEN
        Some(ServiceError("DELEGATE_KEY_MISSING", 503, Some(FALSE), None))
    ELSE None

\* `delegate_key = self._ensure_delegate_key(); sdk = self._build_sdk(network, ...)`
DelegateSdk(cfg, network) ==
    IF EnsureDelegateKey(cfg) # None THEN EnsureDelegateKey(cfg) ELSE BuildSdk(cfg, network)

\* ------------------------------------------------------------------ idempotency cache

\* The `3600` of _idempotency_get, seconds
IDEMPOTENCY_TTL_SECONDS == 3600

\* A cache is a dict: a function from the keys present to (created_at, payload).
EmptyCache == [k \in {} |-> None]

HasKey(key) == key # None /\ key # Some("")

Without(cache, k) == [x \in DOMAIN cache \ {k} |-> cache[x]]
With(cache, k, item) == [x \in DOMAIN cache \cup {k} |-> IF x = k THEN item ELSE cache[x]]

\* Mutant: the stored item is looked up but never returned.
IdempotencyGet_NeverHit(cache, key, now) ==
    IF ~HasKey(key) THEN [payload |-> None, cache |-> cache]
    ELSE IF key[1] \notin DOMAIN cache THEN [payload |-> None, cache |-> cache]
    ELSE IF now - cache[key[1]].created_at > IDEMPOTENCY_TTL_SECONDS * 1000 THEN
        [payload |-> None, cache |-> Without(cache, key[1])]
    ELSE [payload |-> None, cache |-> cache]

\* Mutant: an entry exactly 3600 s old counts as expired.
IdempotencyGet_ExclusiveTtl(cache, key, now) ==
    IF ~HasKey(key) THEN [payload |-> None, cache |-> cache]
    ELSE IF key[1] \notin DOMAIN cache THEN [payload |-> None, cache |-> cache]
    ELSE IF now - cache[key[1]].created_at >= IDEMPOTENCY_TTL_SECONDS * 1000 THEN
        [payload |-> None, cache |-> Without(cache, key[1])]
    ELSE [payload |-> Some(cache[key[1]].payload), cache |-> cache]

\* Mutant: an expired entry is reported absent but stays in the dict.
IdempotencyGet_NoEvict(cache, key, now) ==
    IF ~HasKey(key) THEN [payload |-> None, cache |-> cache]
    ELSE IF key[1] \notin DOMAIN cache THEN [payload |-> None, cache |-> cache]
    ELSE IF now - cache[key[1]].created_at > IDEMPOTENCY_TTL_SECONDS * 1000 THEN
        [payload |-> None, cache |-> cache]
    ELSE [payload |-> Some(cache[key[1]].payload), cache |-> cache]

\* BaseManager._idempotency_get: what it returns and the cache it leaves.
\* (The stored item is a 2-tuple and the payload a non-empty dict: both truthy.)
IdempotencyGet(cache, key, now) ==
    IF ~HasKey(key) THEN [payload |-> None, cache |-> cache]
    ELSE IF key[1] \notin DOMAIN cache THEN [payload |-> None, cache |-> cache]
    ELSE IF now - cache[key[1]].created_at > IDEMPOTENCY_TTL_SECONDS * 1000 THEN
        [payload |-> None, cache |-> Without(cache, key[1])]
    ELSE [payload |-> Some(cache[key[1]].payload), cache |-> cache]

\* Mutant: storing a payload empties the rest of the dict.
IdempotencySet_OnlyEntry(cache, key, payload, now) ==
    IF ~HasKey(key) THEN cache
    ELSE With(EmptyCache, key[1], [created_at |-> now, payload |-> payload])

\* Mutant: the payload is stored whatever the key, under "" when there is none.
IdempotencySet_AnyKey(cache, key, payload, now) ==
    With(cache, IF HasKey(key) THEN key[1] ELSE "",
         [created_at |-> now, payload |-> payload])

\* BaseManager._idempotency_set
IdempotencySet(cache, key, payload, now) ==
    IF ~HasKey(key) THEN cache
    ELSE With(cache, key[1], [created_at |-> now, payload |-> payload])

\* ------------------------------------------------------------------ pair catalog

\* A pair dict of the SDK: each field present or not.
Pair(from, symbol, name, id, pairId) ==
    [from |-> from, symbol |-> symbol, name |-> name, id |-> id, pairId |-> pairId]

\* str(pair.get(field, "")).upper()
FieldUpper(opt) == IF opt = None THEN "" ELSE Upper(opt[1])

\* pair.get("id") or pair.get("pairId")
PairIdOf(pair) == IF pair.id # None /\ pair.id[1] # 0 THEN pair.id ELSE pair.pairId

\* The loop of MarketManager.resolve_pair_id from entry i on: Some(id), or
\* None for INVALID_MARKET.
RECURSIVE ResolveIdFrom(_, _, _)
ResolveIdFrom(pairs, normalized, i) ==
    IF i > Len(pairs) THEN None
    ELSE IF /\ normalized \in {FieldUpper(pairs[i].from), FieldUpper(pairs[i].symbol),
                               FieldUpper(pairs[i].name)}
            /\ PairIdOf(pairs[i]) # None
         THEN PairIdOf(pairs[i])
         ELSE ResolveIdFrom(pairs, normalized, i + 1)

\* The loop of MarketManager.resolve_pair_symbol: Some(symbol) or None.
RECURSIVE ResolveSymbolFrom(_, _, _)
ResolveSymbolFrom(pairs, pair_id, i) ==
    IF i > Len(pairs) THEN None
    ELSE IF PairIdOf(pairs[i]) # None /\ PairIdOf(pairs[i])[1] = pair_id
         THEN (IF FieldUpper(pairs[i].from) = "" THEN None
               ELSE Some(FieldUpper(pairs[i].from)))
         ELSE ResolveSymbolFrom(pairs, pair_id, i + 1)

\* ------------------------------------------------------------------ the remote SDK

PairBtc == Pair(Some("btc"), None, None, Some(1), None)
PairEth == Pair(Some("ETH"), Some("ETHUSD"), None, None, Some(2))
\* The pair with id 0, and a later entry that goes by the same name
PairSol == Pair(Some("SOL"), None, None, Some(0), None)
PairSolAlias == Pair(None, Some("solusd"), Some("Sol"), Some(3), None)
Catalogs == {<< >>, <<PairEth, PairBtc, PairSol, PairSolAlias>>}

\* What a catalog source answers: a list, something that is no list, or an
\* exception.
PairsResults ==
    {[kind |-> "list", pairs |-> cat] : cat \in Catalogs}
        \cup {[kind |-> "malformed", pairs |-> << >>], [kind |-> "raise", pairs |-> << >>]}

\* sdk.get_pair_max_leverage
LeverageResults ==
    {[kind |-> "value", value |-> 5], [kind |-> "value", value |-> 100],
     [kind |-> "raise", value |-> 0]}

\* sdk.price.get_price: a price, no price, or an exception
PriceResults ==
    {[kind |-> "price", price |-> 7], [kind |-> "none", price |-> 0],
     [kind |-> "raise", price |-> 0]}

\* What the mutating primitives raise
SubmitErrors ==
    {"execution reverted", "Request timed out", "Sufficient allowance not present"}

\* str(exc) of a failed read
ReadError == "connection refused"

\* ------------------------------------------------------------------ requests

KeyStrings == {"k1"}
IdempotencyKeys == {None, Some("")} \cup {Some(k) : k \in KeyStrings}

OpenPayload(key, market, order_type, trigger_price) ==
    [op |-> "open_position", network |-> "testnet", idempotencyKey |-> key,
     market |-> market, side |-> "long", collateral |-> 100, leverage |-> 10,
     orderType |-> order_type, triggerPrice |-> trigger_price]

ClosePayload(key) ==
    [op |-> "close_position", network |-> "testnet", idempotencyKey |-> key,
     pairId |-> 1, tradeIndex |-> 0]

CancelPayload(key) ==
    [op |-> "cancel_order", network |-> "testnet", idempotencyKey |-> key,
     pairId |-> 1, tradeIndex |-> 0]

\* PositionUpdateSlRequest / PositionUpdateTpRequest / OrderUpdateRequest, and
\* the idempotency key a client may send along
UpdateSlPayload(key) ==
    [op |-> "update_sl", network |-> "testnet", idempotencyKey |-> key,
     pairId |-> 1, tradeIndex |-> 0, slPrice |-> 4]

UpdateTpPayload(key) ==
    [op |-> "update_tp", network |-> "testnet", idempotencyKey |-> key,
     pairId |-> 1, tradeIndex |-> 0, tpPrice |-> 9]

UpdateOrderPayload(key) ==
    [op |-> "update_order", network |-> "testnet", idempotencyKey |-> key,
     pairId |-> 1, tradeIndex |-> 0, price |-> Some(6)]

\* The update requests: with a key and without
UpdatePayloads ==
    UNION {{UpdateSlPayload(k), UpdateTpPayload(k), UpdateOrderPayload(k)} :
             k \in {None} \cup {Some(k) : k \in KeyStrings}}

\* Every shape of request to the operations that take an idempotency key
Payloads ==
    {OpenPayload(k, o[1], o[2], o[3]) :
        k \in IdempotencyKeys,
        o \in {<<"btc", "market", None>>, <<"1", "limit", None>>,
               <<"1", "limit", Some(5)>>}}
    \cup {ClosePayload(k) : k \in IdempotencyKeys}
    \cup {CancelPayload(k) : k \in IdempotencyKeys}

\* Requests to all six operations
FlowPayloads ==
    {OpenPayload(k, o[1], o[2], o[3]) :
        k \in {None} \cup {Some(k) : k \in KeyStrings},
        o \in {<<"btc", "market", None>>, <<"Btc", "stop", None>>,
               <<"sol", "market", None>>, <<"doge", "market", None>>,
               <<"1", "limit", None>>, <<"1", "limit", Some(5)>>}}
    \cup {ClosePayload(Some(k)) : k \in KeyStrings}
    \cup {CancelPayload(Some(k)) : k \in KeyStrings}
    \cup UpdatePayloads

\* Requests to the operations of OstiumAdapter
AdapterPayloads ==
    {OpenPayload(k, o[1], o[2], o[3]) :
        k \in {None} \cup {Some(k) : k \in KeyStrings},
        o \in {<<"btc", "market", None>>, <<"1", "market", None>>,
               <<"1", "limit", None>>, <<"1", "limit", Some(5)>>}}
    \cup {ClosePayload(Some(k)) : k \in KeyStrings}
    \cup {UpdateSlPayload(None), UpdateTpPayload(None)}

\* The requests that are made concurrently
ConcurrentPayloads ==
    {OpenPayload(Some(k), "1", "market", None) : k \in KeyStrings}
    \cup {CancelPayload(Some(k)) : k \in KeyStrings}

\* Requests made concurrently under two keys
RaceKeys == {"k1", "k2"}

KeyedPayloads ==
    {OpenPayload(Some(k), "1", "market", None) : k \in RaceKeys}

\* The objects that hold an idempotency cache: the two managers, and the
\* OstiumAdapter that main.py constructs
Managers == {"TradingManager", "OrderManager", "OstiumAdapter"}

\* The instance, and so the cache, an operation belongs to
Owner(op) ==
    IF wired = "adapter" THEN "OstiumAdapter"
    ELSE IF op \in {"cancel_order", "update_order"} THEN "OrderManager"
    ELSE "TradingManager"

Operations ==
    {"open_position", "close_position", "cancel_order", "update_sl", "update_tp",
     "update_order"}

\* The operations that call _idempotency_get and _idempotency_set
Guarded(op) == op \in {"open_position", "close_position", "cancel_order"}

DefaultCode(op) ==
    CASE op = "open_position" -> "OPEN_POSITION_FAILED"
      [] op = "close_position" -> "CLOSE_POSITION_FAILED"
      [] op = "cancel_order" -> "CANCEL_ORDER_FAILED"
      [] op = "update_sl" -> "UPDATE_SL_FAILED"
      [] op = "update_tp" -> "UPDATE_TP_FAILED"
      [] op = "update_order" -> "UPDATE_ORDER_FAILED"

\* ------------------------------------------------------------------ one mutating call

Calls == 1..MaxCalls

\* A coroutine: where it is, its payload and locals, and what it has heard
\* from the SDK (listing: the answers of the catalog sources to the latest
\* _fetch_pairs; listed: the list that _fetch_pairs returned; max_leverage:
\* the answer to the ceiling query; invoked: how often the call has invoked
\* a mutating primitive of the SDK).
IdleCall ==
    [pc |-> "idle", payload |-> None, remote_calls |-> 0, had_live_entry |-> FALSE,
     pair_id |-> None, at_price |-> None, pending |-> None, outcome |-> None,
     listing |-> << >>, listed |-> None, max_leverage |-> None, invoked |-> 0]

\* `raise OstiumServiceError(...)` out of the coroutine
Fail(call, error) == [call EXCEPT !.pc = "done", !.outcome = Some(Failed(error))]

\* Whether the cache holds an entry for the key that is at most 3600 s old.
LiveEntry(cache, key, now) ==
    /\ HasKey(key)
    /\ key[1] \in DOMAIN cache
    /\ now - cache[key[1]].created_at <= IDEMPOTENCY_TTL_SECONDS * 1000

\* MarketManager._fetch_pairs up to its first await: _build_sdk(network), then
\* the primary source is asked.
BeginFetch(call, cfg, purpose) ==
    IF BuildSdk(cfg, call.payload[1].network) # None
    THEN Fail(call, BuildSdk(cfg, call.payload[1].network)[1])
    ELSE [call EXCEPT !.pc = purpose, !.listing = << >>, !.listed = None]

\* TradingManager.open_position once the pair id is known, up to the await
\* of sdk.get_pair_max_leverage.
AfterPairId(call, cfg, pair_id) ==
    IF DelegateSdk(cfg, call.payload[1].network) # None
    THEN Fail(call, DelegateSdk(cfg, call.payload[1].network)[1])
    ELSE [call EXCEPT !.pair_id = Some(pair_id), !.pc = "max_leverage"]

\* Mutant: a numeric token is looked up in the catalog like any other.
Begin_AlwaysFetch(call, cfg) ==
    LET p == call.payload[1]
    IN CASE p.op = "open_position" -> BeginFetch(call, cfg, "id_primary")
         [] p.op = "close_position" ->
              IF DelegateSdk(cfg, p.network) # None
              THEN Fail(call, DelegateSdk(cfg, p.network)[1])
              ELSE BeginFetch([call EXCEPT !.pair_id = Some(p.pairId)], cfg, "sym_primary")
         [] p.op \in {"cancel_order", "update_sl", "update_tp", "update_order"} ->
              IF DelegateSdk(cfg, p.network) # None
              THEN Fail(call, DelegateSdk(cfg, p.network)[1])
              ELSE [call EXCEPT !.pc = "submit"]

\* A call after its idempotency lookup found nothing, up to its first await.
Begin(call, cfg) ==
    LET p == call.payload[1]
    IN CASE p.op = "open_position" ->
              IF IsDigit(p.market) THEN AfterPairId(call, cfg, ParseInt(p.market).value)
              ELSE BeginFetch(call, cfg, "id_primary")
         [] p.op = "close_position" ->
              IF DelegateSdk(cfg, p.network) # None
              THEN Fail(call, DelegateSdk(cfg, p.network)[1])
              ELSE BeginFetch([call EXCEPT !.pair_id = Some(p.pairId)], cfg, "sym_primary")
         [] p.op \in {"cancel_order", "update_sl", "update_tp", "update_order"} ->
              IF DelegateSdk(cfg, p.network) # None
              THEN Fail(call, DelegateSdk(cfg, p.network)[1])
              ELSE [call EXCEPT !.pc = "submit"]

\* The call goes on with the list _fetch_pairs returned: the rest of
\* resolve_pair_id or of resolve_pair_symbol, and what follows up to the
\* next await.
WithPairs(call, cfg, pairs) ==
    LET p == call.payload[1]
    IN IF call.pc \in {"id_primary", "id_secondary"} THEN
           LET found == ResolveIdFrom(pairs, Upper(p.market), 1)
           IN IF found = None
              THEN Fail(call, ServiceError("INVALID_MARKET", 400, Some(FALSE), None))
              ELSE AfterPairId(call, cfg, found[1])
       ELSE
           LET symbol == ResolveSymbolFrom(pairs, call.pair_id[1], 1)
           IN IF symbol = None
              THEN Fail(call, ServiceError("INVALID_MARKET", 400, None, None))
              ELSE IF p.op = "close_position" THEN [call EXCEPT !.pc = "price"]
              ELSE IF Upper(p.orderType) = "MARKET" THEN [call EXCEPT !.pc = "price"]
              ELSE IF p.triggerPrice = None
              THEN Fail(call, ServiceError("TRIGGER_PRICE_REQUIRED", 400, None, None))
              ELSE [call EXCEPT !.at_price = p.triggerPrice, !.pc = "submit"]

\* OstiumAdapter.open_position once the pair id is known, up to the first
\* await of _resolve_pair_symbol
AdapterAfterPairId(call, cfg, pair_id) ==
    IF DelegateSdk(cfg, call.payload[1].network) # None
    THEN Fail(call, DelegateSdk(cfg, call.payload[1].network)[1])
    ELSE BeginFetch([call EXCEPT !.pair_id = Some(pair_id)], cfg, "sym_primary")

\* A method of OstiumAdapter after its idempotency lookup, up to its first
\* await
AdapterBegin(call, cfg) ==
    LET p == call.payload[1]
    IN CASE p.op = "open_position" ->
              IF IsDigit(p.market)
              THEN AdapterAfterPairId(call, cfg, ParseInt(p.market).value)
              ELSE BeginFetch(call, cfg, "id_primary")
         [] p.op = "close_position" ->
              IF DelegateSdk(cfg, p.network) # None
              THEN Fail(call, DelegateSdk(cfg, p.network)[1])
              ELSE BeginFetch([call EXCEPT !.pair_id = Some(p.pairId)], cfg, "sym_primary")
         [] p.op \in {"update_sl", "update_tp"} ->
              IF DelegateSdk(cfg, p.network) # None
              THEN Fail(call, DelegateSdk(cfg, p.network)[1])
              ELSE [call EXCEPT !.pc = "submit"]

\* OstiumAdapter goes on with the list _fetch_pairs returned: the rest of
\* _resolve_pair_id or of _resolve_pair_symbol, up to the next await.
AdapterWithPairs(call, cfg, pairs) ==
    IF call.pc \in {"id_primary", "id_secondary"} THEN
        LET found == ResolveIdFrom(pairs, Upper(call.payload[1].market), 1)
        IN IF found = None
           THEN Fail(call, ServiceError("INVALID_MARKET", 400, Some(FALSE), None))
           ELSE AdapterAfterPairId(call, cfg, found[1])
    ELSE
        IF ResolveSymbolFrom(pairs, call.pair_id[1], 1) = None
        THEN Fail(call, ServiceError("INVALID_MARKET", 400, Some(FALSE), None))
        ELSE [call EXCEPT !.pc = "price"]

\* The except clause around the primitive in the methods of OstiumAdapter
AdapterSubmitError(op, raw_error) ==
    ServiceError(DefaultCode(op), 502, Some(TRUE), Some([error |-> raw_error]))

\* The response dict of a successful call of OstiumAdapter
AdapterResponse(call, receipt) ==
    LET p == call.payload[1]
    IN IF p.op = "open_position"
       THEN [network |-> p.network, pairId |-> call.pair_id[1],
             status |-> "submitted", result |-> receipt]
       ELSE IF p.op = "update_sl"
       THEN [network |-> p.network, pairId |-> p.pairId, tradeIndex |-> p.tradeIndex,
             slPrice |-> p.slPrice, result |-> receipt]
       ELSE IF p.op = "update_tp"
       THEN [network |-> p.network, pairId |-> p.pairId, tradeIndex |-> p.tradeIndex,
             tpPrice |-> p.tpPrice, result |-> receipt]
       ELSE [network |-> p.network, pairId |-> p.pairId, tradeIndex |-> p.tradeIndex,
             status |-> "submitted", result |-> receipt]

MarketsFetchFailed ==
    ServiceError("MARKETS_FETCH_FAILED", 502, Some(TRUE), Some([error |-> ReadError]))

\* The response dict of a successful call
Response(call, receipt) ==
    LET p == call.payload[1]
    IN IF p.op = "open_position"
       THEN [network |-> p.network, pairId |-> call.pair_id[1],
             orderType |-> Upper(p.orderType), triggerPrice |-> call.at_price[1],
             status |-> "submitted", result |-> receipt]
       ELSE IF p.op = "update_sl"
       THEN [network |-> p.network, pairId |-> p.pairId, tradeIndex |-> p.tradeIndex,
             slPrice |-> p.slPrice, status |-> "submitted", result |-> receipt]
       ELSE IF p.op = "update_tp"
       THEN [network |-> p.network, pairId |-> p.pairId, tradeIndex |-> p.tradeIndex,
             tpPrice |-> p.tpPrice, status |-> "submitted", result |-> receipt]
       ELSE [network |-> p.network, pairId |-> p.pairId, tradeIndex |-> p.tradeIndex,
             status |-> "submitted", result |-> receipt]

Remote(call) == [call EXCEPT !.remote_calls = @ + 1]

\* A catalog source has answered.
Answered(call, res) ==
    [Remote(call) EXCEPT !.listing = Append(@, [kind |-> res.kind, pairs |-> res.pairs])]

\* `return pairs` of _fetch_pairs
Listed(call, pairs) == [call EXCEPT !.listed = Some(pairs)]

\* ------------------------------------------------------------------ actions of a call

\* A mutating method is called with payload p: the idempotency lookup where
\* the method has one, and on a miss everything up to the first await.
Start(c, p) ==
    /\ calls[c].pc = "idle"
    /\ LET owner == Owner(p.op)
           got == IF Guarded(p.op)
                  THEN IdempotencyGet(caches[owner], p.idempotencyKey, clock)
                  ELSE [payload |-> None, cache |-> caches[owner]]
           call == [IdleCall EXCEPT
                       !.payload = Some(p),
                       !.had_live_entry = LiveEntry(caches[owner], p.idempotencyKey, clock)]
       IN /\ caches' = [caches EXCEPT ![owner] = got.cache]
          /\ calls' = [calls EXCEPT ![c] =
                IF got.payload # None
                THEN [call EXCEPT !.pc = "done", !.outcome = Some(Returned(got.payload[1]))]
                ELSE IF wired = "adapter" THEN AdapterBegin(call, settings)
                ELSE Begin(call, settings)]
    /\ UNCHANGED <<clock, ticks, settings, wired, submissions, ok_log>>
    /\ UNCHANGED authvars
    /\ UNCHANGED purevars

\* await asyncio.to_thread(sdk.get_formatted_pairs_details)
FetchPrimary(c) ==
    /\ calls[c].pc \in {"id_primary", "sym_primary"}
    /\ \E res \in PairsResults :
          calls' = [calls EXCEPT ![c] =
              IF res.kind = "list"
              THEN (IF wired = "adapter"
                    THEN AdapterWithPairs(Listed(Answered(@, res), res.pairs), settings,
                                          res.pairs)
                    ELSE WithPairs(Listed(Answered(@, res), res.pairs), settings, res.pairs))
              ELSE [Answered(@, res) EXCEPT !.pc = IF @ = "id_primary" THEN "id_secondary"
                                                  ELSE "sym_secondary"]]
    /\ UNCHANGED <<clock, ticks, settings, wired, caches, submissions, ok_log, snapshot>>
    /\ UNCHANGED authvars
    /\ UNCHANGED purevars

\* await sdk.subgraph.get_pairs()
FetchSecondary(c) ==
    /\ calls[c].pc \in {"id_secondary", "sym_secondary"}
    /\ \E res \in PairsResults :
          calls' = [calls EXCEPT ![c] =
              IF res.kind = "raise" THEN Fail(Answered(@, res), MarketsFetchFailed)
              ELSE LET pairs == IF res.kind = "list" THEN res.pairs ELSE << >>
                   IN IF wired = "adapter"
                      THEN AdapterWithPairs(Listed(Answered(@, res), pairs), settings, pairs)
                      ELSE WithPairs(Listed(Answered(@, res), pairs), settings, pairs)]
    /\ UNCHANGED <<clock, ticks, settings, wired, caches, submissions, ok_log, snapshot>>
    /\ UNCHANGED authvars
    /\ UNCHANGED purevars

\* await sdk.get_pair_max_leverage(pair_id), the comparison, and on to
\* resolve_pair_symbol
MaxLeverage(c) ==
    /\ calls[c].pc = "max_leverage"
    /\ \E res \in LeverageResults :
          calls' = [calls EXCEPT ![c] =
              LET call == [Remote(@) EXCEPT !.max_leverage = Some(res)]
              IN IF res.kind = "value" /\ call.payload[1].leverage > res.value
                 THEN Fail(call, ServiceError("LEVERAGE_TOO_HIGH", 400, None, None))
                 ELSE BeginFetch(call, settings, "sym_primary")]
    /\ UNCHANGED <<clock, ticks, settings, wired, caches, submissions, ok_log, snapshot>>
    /\ UNCHANGED authvars
    /\ UNCHANGED purevars

\* await get_price(network, symbol, "USD") and the check of the price: of
\* the TradingManager, or of the OstiumAdapter
Price(c) ==
    /\ calls[c].pc = "price"
    /\ \E res \in PriceResults :
          calls' = [calls EXCEPT ![c] =
              CASE res.kind = "price" ->
                     [Remote(@) EXCEPT !.at_price = Some(res.price), !.pc = "submit"]
                [] res.kind = "none" ->
                     Fail(Remote(@),
                          ServiceError("PRICE_FETCH_FAILED", 502,
                                       IF wired = "adapter" THEN Some(TRUE) ELSE None,
                                       None))
                [] res.kind = "raise" ->
                     Fail(Remote(@), ServiceError("PRICE_FETCH_FAILED", 502, Some(TRUE),
                                                  Some([error |-> ReadError])))]
    /\ UNCHANGED <<clock, ticks, settings, wired, caches, submissions, ok_log, snapshot>>
    /\ UNCHANGED authvars
    /\ UNCHANGED purevars

\* asyncio.to_thread(sdk.ostium.perform_trade / close_trade / cancel_limit_order):
\* the primitive runs in its thread and returns a receipt or raises.
Submit(c) ==
    /\ calls[c].pc = "submit"
    /\ submissions < MaxSubmissions
    /\ submissions' = submissions + 1
    /\ \E res \in {[kind |-> "ok", receipt |-> submissions + 1, message |-> ""]}
                    \cup {[kind |-> "raise", receipt |-> 0, message |-> m] :
                            m \in SubmitErrors} :
          calls' = [calls EXCEPT ![c] =
                        [Remote(@) EXCEPT !.pc = "submitted", !.pending = Some(res),
                                          !.invoked = @ + 1]]
    /\ UNCHANGED <<clock, ticks, settings, wired, caches, ok_log, snapshot>>
    /\ UNCHANGED authvars
    /\ UNCHANGED purevars

\* The coroutine resumes after the primitive: the exception is normalized
\* and raised, or the response is built, stored under the key and returned.
Resume(c) ==
    /\ calls[c].pc = "submitted"
    /\ LET call == calls[c]
           p == call.payload[1]
           res == call.pending[1]
           owner == Owner(p.op)
           response == IF wired = "adapter" THEN AdapterResponse(call, res.receipt)
                       ELSE Response(call, res.receipt)
       IN IF res.kind = "raise"
          THEN /\ calls' = [calls EXCEPT ![c] =
                    Fail(call, IF wired = "adapter"
                               THEN AdapterSubmitError(p.op, res.message)
                               ELSE NormalizeSdkError(p.op, DefaultCode(p.op),
                                                      res.message))]
               /\ UNCHANGED <<caches, ok_log>>
          ELSE /\ calls' = [calls EXCEPT ![c] =
                    [call EXCEPT !.pc = "done", !.outcome = Some(Returned(response))]]
               /\ caches' = [caches EXCEPT ![owner] =
                    IF Guarded(p.op)
                    THEN IdempotencySet(@, p.idempotencyKey, response, clock)
                    ELSE @]
               /\ ok_log' = [ok_log EXCEPT ![p.op] =
                    IF HasKey(p.idempotencyKey)
                    THEN With(@, p.idempotencyKey[1], [at |-> clock, payload |-> response])
                    ELSE @]
    /\ UNCHANGED <<clock, ticks, settings, wired, submissions, snapshot>>
    /\ UNCHANGED authvars
    /\ UNCHANGED purevars

\* The route handler has the result; the coroutine is gone.
Retire(c) ==
    /\ calls[c].pc = "done"
    /\ calls' = [calls EXCEPT ![c] = IdleCall]
    /\ UNCHANGED <<clock, ticks, settings, wired, caches, submissions, ok_log, snapshot>>
    /\ UNCHANGED authvars
    /\ UNCHANGED purevars

\* Wall-clock time passes.
Tick(d, bound) ==
    /\ ticks < bound
    /\ clock' = clock + d
    /\ ticks' = ticks + 1

\* One second, or the whole time to live
ClockSteps == {1000, IDEMPOTENCY_TTL_SECONDS * 1000}

TradeTick ==
    \E d \in ClockSteps : Tick(d, MaxTicks) /\ UNCHANGED <<authvars, tradevars, purevars>>

\* ------------------------------------------------------------------ specifications of the calls

AllSettings ==
    [ostium_enabled : BOOLEAN, sdk_imported : BOOLEAN, delegate_key_set : BOOLEAN]

WorkingSettings ==
    [ostium_enabled |-> TRUE, sdk_imported |-> TRUE, delegate_key_set |-> TRUE]

InitCalls ==
    /\ wired = "managers"
    /\ evaluated = None
    /\ caches = [m \in Managers |-> EmptyCache]
    /\ calls = [c \in Calls |-> IdleCall]
    /\ submissions = 0
    /\ ok_log = [op \in Operations |-> EmptyCache]
    /\ snapshot = [caches |-> [m \in Managers |-> EmptyCache], at |-> 0]

\* Requests in flight side by side.
Init ==
    /\ clock = 0
    /\ ticks = 0
    /\ hmac_secret = ClientSecret
    /\ last = None
    /\ settings = WorkingSettings
    /\ InitCalls

StartConcurrent == \E c \in Calls, p \in ConcurrentPayloads : Start(c, p) /\ UNCHANGED snapshot

Next ==
    \/ StartConcurrent
    \/ \E c \in Calls : FetchPrimary(c)
    \/ \E c \in Calls : FetchSecondary(c)
    \/ \E c \in Calls : MaxLeverage(c)
    \/ \E c \in Calls : Price(c)
    \/ \E c \in Calls : Submit(c)
    \/ \E c \in Calls : Resume(c)
    \/ \E c \in Calls : Retire(c)
    \/ TradeTick

Spec == Init /\ [][Next]_vars

\* The entries stored so far outlive their hour.
ExpiryTick ==
    /\ Tick((IDEMPOTENCY_TTL_SECONDS + 1) * 1000, 1)
    /\ UNCHANGED <<authvars, tradevars, purevars>>

\* Requests in flight side by side under different keys.
StartKeyed == \E c \in Calls, p \in KeyedPayloads : Start(c, p) /\ UNCHANGED snapshot

NextKeys ==
    \/ StartKeyed
    \/ \E c \in Calls : FetchPrimary(c)
    \/ \E c \in Calls : FetchSecondary(c)
    \/ \E c \in Calls : MaxLeverage(c)
    \/ \E c \in Calls : Price(c)
    \/ \E c \in Calls : Submit(c)
    \/ \E c \in Calls : Resume(c)
    \/ \E c \in Calls : Retire(c)
    \/ ExpiryTick

SpecKeys == Init /\ [][NextKeys]_vars

\* One request after the other: a call starts when no other is in flight,
\* and the caches of that moment are remembered.
InitSeq ==
    /\ clock = 0
    /\ ticks = 0
    /\ hmac_secret = ClientSecret
    /\ last = None
    /\ settings \in AllSettings
    /\ InitCalls

StartSeq ==
    /\ \A c \in Calls : calls[c].pc = "idle"
    /\ \E p \in Payloads : Start(1, p)
    /\ snapshot' = [caches |-> caches, at |-> clock]

NextSeq ==
    \/ StartSeq
    \/ FetchPrimary(1)
    \/ FetchSecondary(1)
    \/ MaxLeverage(1)
    \/ Price(1)
    \/ Submit(1)
    \/ Resume(1)
    \/ Retire(1)
    \/ TradeTick

SpecSeq == InitSeq /\ [][NextSeq]_vars

\* One request after the other to any of the six operations, the clock
\* standing still.
StartFlow ==
    /\ \A c \in Calls : calls[c].pc = "idle"
    /\ \E p \in FlowPayloads : Start(1, p)
    /\ snapshot' = [caches |-> caches, at |-> clock]

NextFlow ==
    \/ StartFlow
    \/ FetchPrimary(1)
    \/ FetchSecondary(1)
    \/ MaxLeverage(1)
    \/ Price(1)
    \/ Submit(1)
    \/ Resume(1)
    \/ Retire(1)

SpecFlow == InitSeq /\ [][NextFlow]_vars

\* The service as main.py wires it: every route goes to the one OstiumAdapter.
InitAdapter ==
    /\ clock = 0
    /\ ticks = 0
    /\ hmac_secret = ClientSecret
    /\ last = None
    /\ settings \in AllSettings
    /\ wired = "adapter"
    /\ evaluated = None
    /\ caches = [m \in Managers |-> EmptyCache]
    /\ calls = [c \in Calls |-> IdleCall]
    /\ submissions = 0
    /\ ok_log = [op \in Operations |-> EmptyCache]
    /\ snapshot = [caches |-> [m \in Managers |-> EmptyCache], at |-> 0]

StartAdapter ==
    /\ \A c \in Calls : calls[c].pc = "idle"
    /\ \E p \in AdapterPayloads : Start(1, p)
    /\ snapshot' = [caches |-> caches, at |-> clock]

NextAdapter ==
    \/ StartAdapter
    \/ FetchPrimary(1)
    \/ FetchSecondary(1)
    \/ Price(1)
    \/ Submit(1)
    \/ Resume(1)
    \/ Retire(1)

SpecAdapter == InitAdapter /\ [][NextAdapter]_vars

\* ------------------------------------------------------------------ the faucet

\* FaucetRequest
FaucetPayload(network, trader_address) ==
    [op |-> "request_faucet", network |-> network, traderAddress |-> trader_address,
     idempotencyKey |-> None]

FaucetPayloads ==
    {FaucetPayload(n, a) : n \in {"testnet", "mainnet"}, a \in {None, Some("0xabc")}}

\* sdk.faucet: None, an object with neither get_tokens nor request_tokens, or
\* an object with one of them
FaucetObjects == {"none", "no_method", "callable"}

\* sdk.ostium.get_public_address()
PublicAddress == "0xdef"

\* What the faucet method does when called: it returns, it raises a
\* TypeError (because it takes no argument, or from inside its body), or it
\* raises something else.
FaucetResults ==
    {[kind |-> "ok", type_error |-> FALSE, message |-> ""],
     [kind |-> "raise", type_error |-> TRUE,
      message |-> "takes 1 positional argument but 2 were given"],
     [kind |-> "raise", type_error |-> TRUE,
      message |-> "int() argument must be a string"],
     [kind |-> "raise", type_error |-> TRUE, message |-> "unhashable type"],
     [kind |-> "raise", type_error |-> FALSE, message |-> "execution reverted"]}

\* The response dict of request_faucet
FaucetResponse(call, result) ==
    LET p == call.payload[1]
    IN [network |-> p.network,
        address |-> IF p.traderAddress # None THEN p.traderAddress[1] ELSE PublicAddress,
        status |-> "submitted", result |-> result]

\* `except Exception as exc: raise self._normalize_sdk_error("request_faucet", ...)`
FaucetError(message) ==
    NormalizeSdkError("request_faucet", "FAUCET_REQUEST_FAILED", message)

\* AccountManager.request_faucet up to its first await
StartFaucet ==
    /\ \A c \in Calls : calls[c].pc = "idle"
    /\ \E p \in FaucetPayloads, faucet \in FaucetObjects :
          LET call == [IdleCall EXCEPT !.payload = Some(p)]
          IN calls' = [calls EXCEPT ![1] =
                IF p.network # "testnet"
                THEN Fail(call, ServiceError("FAUCET_NOT_AVAILABLE", 400, None, None))
                ELSE IF DelegateSdk(settings, p.network) # None
                THEN Fail(call, DelegateSdk(settings, p.network)[1])
                ELSE IF faucet = "none"
                THEN Fail(call, ServiceError("FAUCET_UNAVAILABLE", 503, None, None))
                ELSE IF faucet = "no_method"
                THEN [call EXCEPT !.pc = "done",
                         !.outcome = Some(Returned(FaucetResponse(call,
                                                     "Manual request required")))]
                ELSE [call EXCEPT !.pc = "faucet"]]
    /\ snapshot' = [caches |-> caches, at |-> clock]
    /\ UNCHANGED <<clock, ticks, settings, wired, caches, submissions, ok_log>>
    /\ UNCHANGED authvars
    /\ UNCHANGED purevars

\* await asyncio.to_thread(method, target), and the except TypeError clause
Faucet(c) ==
    /\ calls[c].pc = "faucet"
    /\ \E res \in FaucetResults :
          calls' = [calls EXCEPT ![c] =
              LET call == [Remote(@) EXCEPT !.invoked = @ + 1]
              IN IF res.kind = "ok"
                 THEN [call EXCEPT !.pc = "done",
                          !.outcome = Some(Returned(FaucetResponse(call, "0x01")))]
                 ELSE IF res.type_error /\ Contains(res.message, "argument")
                 THEN [call EXCEPT !.pc = "faucet_again"]
                 ELSE Fail(call, FaucetError(res.message))]
    /\ UNCHANGED <<clock, ticks, settings, wired, caches, submissions, ok_log, snapshot>>
    /\ UNCHANGED authvars
    /\ UNCHANGED purevars

\* await asyncio.to_thread(method)
FaucetAgain(c) ==
    /\ calls[c].pc = "faucet_again"
    /\ \E res \in FaucetResults :
          calls' = [calls EXCEPT ![c] =
              LET call == [Remote(@) EXCEPT !.invoked = @ + 1]
              IN IF res.kind = "ok"
                 THEN [call EXCEPT !.pc = "done",
                          !.outcome = Some(Returned(FaucetResponse(call, "0x01")))]
                 ELSE Fail(call, FaucetError(res.message))]
    /\ UNCHANGED <<clock, ticks, settings, wired, caches, submissions, ok_log, snapshot>>
    /\ UNCHANGED authvars
    /\ UNCHANGED purevars

\* One request after the other to any mutating operation of the managers
NextMutations ==
    \/ StartFlow
    \/ StartFaucet
    \/ FetchPrimary(1)
    \/ FetchSecondary(1)
    \/ MaxLeverage(1)
    \/ Price(1)
    \/ Submit(1)
    \/ Resume(1)
    \/ Faucet(1)
    \/ FaucetAgain(1)
    \/ Retire(1)

SpecMutations == InitSeq /\ [][NextMutations]_vars

\* ------------------------------------------------------------------ pure helpers

\* str(exc) of the exceptions the SDK raises
RawErrors ==
    {"", "execution reverted", "time out", "Request timed out", "TIMEOUT",
     "gateway timeout: Sufficient Allowance not present",
     "ERC20: no allowance for spender", "Delegation is not active",
     "delegation not active (timed out)", "Safe wallet not found",
     "safe wallet not found; allowance for safe", "Delegate wallet gas is low",
     "insufficient funds for gas * price + value",
     "insufficient funds for gas: delegation is not active"}

\* The arguments the six operations pass to _normalize_sdk_error
NormalizeInputs ==
    {[operation |-> op, default_code |-> DefaultCode(op), raw_error |-> m] :
        op \in Operations, m \in RawErrors}

InitPure ==
    /\ clock = 0
    /\ ticks = 0
    /\ hmac_secret = ClientSecret
    /\ last = None
    /\ settings = WorkingSettings
    /\ wired = "managers"
    /\ caches = [m \in Managers |-> EmptyCache]
    /\ calls = [c \in Calls |-> IdleCall]
    /\ submissions = 0
    /\ ok_log = [op \in Operations |-> EmptyCache]
    /\ snapshot = [caches |-> [m \in Managers |-> EmptyCache], at |-> 0]
    /\ evaluated \in {Some([fn |-> "_normalize_sdk_error", args |-> a, result |-> None]) :
                        a \in NormalizeInputs}

\* self._normalize_sdk_error(operation, default_code, default_message, exc)
Normalize ==
    /\ evaluated[1].fn = "_normalize_sdk_error"
    /\ evaluated[1].result = None
    /\ evaluated' =
         Some([evaluated[1] EXCEPT !.result =
                  Some(NormalizeSdkError(evaluated[1].args.operation,
                                         evaluated[1].args.default_code,
                                         evaluated[1].args.raw_error))])
    /\ UNCHANGED <<clock, ticks, authvars, tradevars>>

NextPure == Normalize

SpecPure == InitPure /\ [][NextPure]_vars

\* A pair that carries the id 0 under pairId
PairSolPairId == Pair(Some("sol"), None, None, None, Some(0))

\* Catalogs of one to three entries
ResolvePairs == {PairBtc, PairEth, PairSol, PairSolAlias, PairSolPairId}

ResolveCatalogs ==
    {<<a>> : a \in ResolvePairs}
    \cup {<<a, b>> : a \in ResolvePairs, b \in ResolvePairs}
    \cup {<<a, b, c>> : a \in ResolvePairs, b \in ResolvePairs, c \in ResolvePairs}

\* A catalog, a pair id to find the symbol of, and a market token to find
\* the id of
ResolveInputs ==
    [pairs : ResolveCatalogs, pair_id : {0, 1, 2}, market : {"sol", "BTC", "0"}]

InitResolve ==
    /\ clock = 0
    /\ ticks = 0
    /\ hmac_secret = ClientSecret
    /\ last = None
    /\ settings = WorkingSettings
    /\ wired = "managers"
    /\ caches = [m \in Managers |-> EmptyCache]
    /\ calls = [c \in Calls |-> IdleCall]
    /\ submissions = 0
    /\ ok_log = [op \in Operations |-> EmptyCache]
    /\ snapshot = [caches |-> [m \in Managers |-> EmptyCache], at |-> 0]
    /\ evaluated \in {Some([fn |-> "resolve", args |-> a, result |-> None]) :
                        a \in ResolveInputs}

\* resolve_pair_symbol(network, pair_id) and resolve_pair_id(network, market)
\* on the catalog _fetch_pairs returned; `if not symbol: raise INVALID_MARKET`
\* of open_position and close_position
Resolve ==
    /\ evaluated[1].fn = "resolve"
    /\ evaluated[1].result = None
    /\ LET a == evaluated[1].args
           symbol == ResolveSymbolFrom(a.pairs, a.pair_id, 1)
           found == IF IsDigit(a.market) THEN Some(ParseInt(a.market).value)
                    ELSE ResolveIdFrom(a.pairs, Upper(a.market), 1)
       IN evaluated' =
            Some([evaluated[1] EXCEPT !.result =
                     Some([symbol |-> symbol, pair_id |-> found,
                           rejected |-> symbol = None])])
    /\ UNCHANGED <<clock, ticks, authvars, tradevars>>

NextResolve == Resolve

SpecResolve == InitResolve /\ [][NextResolve]_vars

\* ------------------------------------------------------------------ HTTP clients

V1Paths == {"/v1/price", "/v1/price:x"}
OpenPaths == {"/health", "/ready", "/docs", "/v1"}
Methods == {"POST", "post", "GET"}
Bodies == {"{}", "x:{}"}
TimestampHeaders ==
    {None, Some(""), Some("abc"), Some("0"), Some("1"), Some("300000"), Some("300001")}

\* What a client signs: a timestamp, a method, a path and a body.
SignedTuples ==
    [key : {ClientSecret}, timestamp : {"0", "1", "300000", "300001"},
     method : {"POST"}, path : V1Paths, body : Bodies]

Sign(t) == HexDigest(t.key, CanonicalMessage(t.timestamp, t.method, t.path, t.body))

HttpRequest(m, p, b, ts, sig) ==
    [method |-> m, path |-> p, body |-> b, timestamp |-> ts, signature |-> sig]

\* A request together with what its signature header was computed from
\* (None when the header is absent, empty or no digest at all).
UnsignedInputs ==
    {[request |-> HttpRequest("POST", p, "{}", ts, sig), signed |-> None] :
        p \in V1Paths, ts \in TimestampHeaders,
        sig \in {None, Some(EmptySignature), Some(GarbageSignature)}}

\* The timestamp header sent along with a signature over timestamp `ts`:
\* the signed one, or another one close to it.
TimestampsSentWith(ts) == IF ts \in {"0", "1"} THEN {"0", "1"} ELSE {ts}

\* A signature of the legitimate client, on the request it was made for or
\* on one that differs from it in any of the components.
SignedInputs ==
    {[request |-> HttpRequest(x[1], x[2], x[3], Some(x[4]), Some(Sign(x[5]))),
      signed |-> Some(x[5])] :
        x \in {y \in Methods \X V1Paths \X Bodies
                     \X {"0", "1", "300000", "300001"} \X SignedTuples :
                  y[4] \in TimestampsSentWith(y[5].timestamp)}}

\* A request signed over exactly its own contents with the wrong key.
ForgedInputs ==
    {LET t == [key |-> WrongSecret, timestamp |-> ts, method |-> "POST",
               path |-> p, body |-> "{}"]
     IN [request |-> HttpRequest("POST", p, "{}", Some(ts), Some(Sign(t))),
         signed |-> Some(t)] :
        p \in V1Paths, ts \in {"0", "300000"}}

OpenInputs ==
    {[request |-> HttpRequest("GET", p, "", ts, sig), signed |-> None] :
        p \in OpenPaths, ts \in {None, Some("abc")},
        sig \in {None, Some(GarbageSignature)}}

AuthInputs == UnsignedInputs \cup SignedInputs \cup ForgedInputs \cup OpenInputs

\* ------------------------------------------------------------------ gate actions

\* What is known of a dispatch: the request, what its signature was made
\* from, the response, the time, and (for a request presented again) the
\* response it got the time before.
Record(in, resp, previous) ==
    Some([request |-> in.request, signed |-> in.signed, response |-> resp,
          at |-> clock, previous |-> previous])

\* A request arrives and runs through HmacAuthMiddleware.dispatch.
Dispatch(in) ==
    /\ last = None
    /\ last' = Record(in, DispatchResponse(hmac_secret, in.request, clock), None)
    /\ UNCHANGED <<clock, ticks, hmac_secret>>
    /\ UNCHANGED tradevars
    /\ UNCHANGED purevars

\* The client presents the byte-identical request once more.
Replay ==
    /\ last # None
    /\ LET in == [request |-> last[1].request, signed |-> last[1].signed]
       IN last' = Record(in, DispatchResponse(hmac_secret, in.request, clock),
                         Some(last[1].response))
    /\ UNCHANGED <<clock, ticks, hmac_secret>>
    /\ UNCHANGED tradevars
    /\ UNCHANGED purevars

\* The response has gone out; nothing of the request remains.
Respond ==
    /\ last # None
    /\ last' = None
    /\ UNCHANGED <<clock, ticks, hmac_secret>>
    /\ UNCHANGED tradevars
    /\ UNCHANGED purevars

\* Wall-clock time passes.
AuthClockSteps == {1, hmac_timestamp_tolerance_ms}

AuthTick ==
    \E d \in AuthClockSteps :
        Tick(d, MaxAuthTicks) /\ UNCHANGED <<authvars, tradevars, purevars>>

InitAuth ==
    /\ clock = 0
    /\ ticks = 0
    /\ hmac_secret \in {"", ClientSecret}
    /\ last = None
    /\ settings = WorkingSettings
    /\ InitCalls

NextAuth ==
    \/ \E in \in AuthInputs : Dispatch(in)
    \/ Replay
    \/ Respond
    \/ AuthTick

SpecAuth == InitAuth /\ [][NextAuth]_vars

\* ------------------------------------------------------------------ routes

\* A route of build_v1_router: the operation name its handler reports and the
\* adapter method it awaits
Route(operation, method) == [operation |-> operation, method |-> method]

Routes ==
    {Route("positions/list", "list_positions"), Route("positions/open", "open_position"),
     Route("positions/close", "close_position"), Route("positions/update-sl", "update_sl"),
     Route("positions/update-tp", "update_tp"),
     Route("positions/metrics", "get_position_metrics"),
     Route("orders/list", "list_orders"), Route("orders/cancel", "cancel_order"),
     Route("orders/update", "update_order"), Route("orders/track", "track_order"),
     Route("markets/list", "list_markets"), Route("prices/get", "get_price"),
     Route("markets/funding-rate", "get_funding_rate"),
     Route("markets/rollover-rate", "get_rollover_rate"),
     Route("markets/details", "get_market_details"),
     Route("accounts/balance", "get_balance"), Route("accounts/history", "get_history"),
     Route("faucet/request", "request_faucet")}

\* The public coroutines that class OstiumAdapter defines
AdapterMethods ==
    {"list_markets", "get_price", "get_balance", "list_positions", "open_position",
     "close_position", "update_sl", "update_tp"}

\* What a method of the adapter does once it is called: it returns its data,
\* raises an OstiumServiceError, or raises something else.
Behaviours ==
    {[kind |-> "returns", error |-> None, type |-> "", text |-> ""],
     [kind |-> "service_error",
      error |-> Some(ServiceError("INVALID_MARKET", 400, Some(FALSE), None)),
      type |-> "", text |-> ""],
     [kind |-> "service_error",
      error |-> Some(MarketsFetchFailed), type |-> "", text |-> ""],
     [kind |-> "exception", error |-> None, type |-> "KeyError", text |-> "'network'"],
     [kind |-> "exception", error |-> None, type |-> "ValueError",
      text |-> "could not convert string to float"]}

\* Meta(requestId=request.state.request_id), its timestamp the time of the
\* response
Meta(now) == [requestId |-> "request-1", timestamp |-> now]

\* _success(request, data), as FastAPI sends it
SuccessResponse(route, now) ==
    [status_code |-> 200,
     content |-> [success |-> TRUE, data |-> route.method, meta |-> Meta(now)]]

\* error_response(request, exc)
ErrorResponse(exc, now) ==
    [status_code |-> exc.status_code,
     content |-> [success |-> FALSE,
                  error |-> [code |-> exc.code, details |-> exc.details,
                             retryable |-> exc.retryable],
                  meta |-> Meta(now)]]

\* unexpected_error_response(request, operation, exc)
UnexpectedErrorResponse(operation, exc, now) ==
    [status_code |-> 500,
     content |-> [success |-> FALSE,
                  error |-> [code |-> "OSTIUM_INTERNAL_ERROR",
                             details |-> Some([error |-> exc.text, type |-> exc.type,
                                               operation |-> operation]),
                             retryable |-> Some(FALSE)],
                  meta |-> Meta(now)]]

\* An exception that no handler caught: Starlette answers 500 with a plain
\* text body and raises it on to the server.
Propagated(exc) ==
    [status_code |-> 500, content |-> [raised |-> exc.type, text |-> exc.text]]

\* The exception other than OstiumServiceError that `await adapter.<method>(...)`
\* ends with, if any: the attribute lookup fails when the adapter has no such
\* method.
Escaping(route, behaviour) ==
    IF route.method \notin AdapterMethods
    THEN Some([type |-> "AttributeError",
               text |-> "'OstiumAdapter' object has no attribute '" \o route.method \o "'"])
    ELSE IF behaviour.kind = "exception"
    THEN Some([type |-> behaviour.type, text |-> behaviour.text])
    ELSE None

\* Mutant: the handler catches OstiumServiceError only.
Handler_ServiceErrorsOnly(route, behaviour, now) ==
    IF Escaping(route, behaviour) # None
    THEN Propagated(Escaping(route, behaviour)[1])
    ELSE IF behaviour.kind = "service_error" THEN ErrorResponse(behaviour.error[1], now)
    ELSE SuccessResponse(route, now)

\* A handler of the v1 routers: try / except OstiumServiceError / except
\* Exception
Handler(route, behaviour, now) ==
    IF Escaping(route, behaviour) # None
    THEN UnexpectedErrorResponse(route.operation, Escaping(route, behaviour)[1], now)
    ELSE IF behaviour.kind = "service_error" THEN ErrorResponse(behaviour.error[1], now)
    ELSE SuccessResponse(route, now)

\* JSONResponse(status_code=..., content={"error": {"code": ..., "message": ...}})
\* of the middleware
JsonErrorResponse(gate) ==
    [status_code |-> gate.status_code,
     content |-> [error |-> [code |-> gate.code, message |-> gate.message]]]

\* The application answers a request to a route: the middleware, and behind
\* it the handler.
ServeRequest(secret, request, route, behaviour, now) ==
    LET gate == DispatchResponse(secret, request, now)
    IN IF gate.forwarded THEN Handler(route, behaviour, now)
       ELSE JsonErrorResponse(gate)

\* The path of a route under the prefix of the v1 router
RoutePath(route) == "/v1/" \o route.operation

\* Schema-valid POST requests to a route: signed by the client over their own
\* contents, signed with another key, or lacking a header.
RouteRequests(route) ==
    {HttpRequest("POST", RoutePath(route), "{}", ts, sig) :
        ts \in {None, Some("abc"), Some("0")},
        sig \in {None,
                 Some(HexDigest(ClientSecret,
                                CanonicalMessage("0", "POST", RoutePath(route), "{}"))),
                 Some(HexDigest(WrongSecret,
                                CanonicalMessage("0", "POST", RoutePath(route), "{}")))}}

RouteInputs ==
    UNION {{[route |-> route, request |-> request, behaviour |-> behaviour] :
               request \in RouteRequests(route), behaviour \in Behaviours} :
           route \in Routes}

InitRoutes ==
    /\ clock \in {0, hmac_timestamp_tolerance_ms + 1}
    /\ ticks = 0
    /\ hmac_secret \in {"", ClientSecret}
    /\ last = None
    /\ settings = WorkingSettings
    /\ wired = "adapter"
    /\ caches = [m \in Managers |-> EmptyCache]
    /\ calls = [c \in Calls |-> IdleCall]
    /\ submissions = 0
    /\ ok_log = [op \in Operations |-> EmptyCache]
    /\ snapshot = [caches |-> [m \in Managers |-> EmptyCache], at |-> 0]
    /\ evaluated \in {Some([fn |-> "v1", args |-> a, result |-> None]) : a \in RouteInputs}

\* The request goes through the application and the response comes back.
Serve ==
    /\ evaluated[1].fn = "v1"
    /\ evaluated[1].result = None
    /\ evaluated' =
         Some([evaluated[1] EXCEPT !.result =
                  Some(ServeRequest(hmac_secret, evaluated[1].args.request,
                                    evaluated[1].args.route,
                                    evaluated[1].args.behaviour, clock))])
    /\ UNCHANGED <<clock, ticks, authvars, tradevars>>

NextRoutes == Serve

SpecRoutes == InitRoutes /\ [][NextRoutes]_vars

\* ------------------------------------------------------------------ JSON-safe encoding

\* Python values, tagged with their type
VNone == [t |-> "none"]
VBool(b) == [t |-> "bool", b |-> b]
VInt(n) == [t |-> "int", n |-> n]
VFloat(text) == [t |-> "float", x |-> text]
VStr(text) == [t |-> "str", s |-> text]
VBytes(octets) == [t |-> "bytes", octets |-> octets]
VByteArray(octets) == [t |-> "bytearray", octets |-> octets]
\* Decimal((sign, digits, exponent)): (-1)^sign * digits * 10^exponent
VDecimal(sign, digits, exponent) ==
    [t |-> "decimal", sign |-> sign, digits |-> digits, exponent |-> exponent]
\* A dict, in insertion order: a sequence of [key, value] with distinct keys
VDict(items) == [t |-> "dict", items |-> items]
VList(items) == [t |-> "list", items |-> items]
VTuple(items) == [t |-> "tuple", items |-> items]
\* A set, in the order its iteration yields
VSet(items) == [t |-> "set", items |-> items]
\* Any other object: what its hex() does if it has one ("absent", "raises",
\* "other" for a result that is no str, or the str returned), its __dict__
\* if it has one, and its str()
VObject(hex, attrs, text) == [t |-> "object", hex |-> hex, attrs |-> attrs, text |-> text]
HexAbsent == [kind |-> "absent", v |-> ""]
HexRaises == [kind |-> "raises", v |-> ""]
HexOther == [kind |-> "other", v |-> ""]
HexStr(text) == [kind |-> "str", v |-> text]

Item(key, value) == [key |-> key, value |-> value]

DigitChars == "0123456789abcdef"
HexDigit(n) == CharAt(DigitChars, n + 1)

\* str(n) of a natural number
RECURSIVE NatToStr(_)
NatToStr(n) == IF n < 10 THEN HexDigit(n) ELSE NatToStr(n \div 10) \o HexDigit(n % 10)

\* str(n) of an int
IntToStr(n) == IF n < 0 THEN "-" \o NatToStr(0 - n) ELSE NatToStr(n)

\* bytes.hex(): two lowercase hex digits per byte
RECURSIVE HexOf(_)
HexOf(octets) ==
    IF octets = << >> THEN ""
    ELSE HexDigit(Head(octets) \div 16) \o HexDigit(Head(octets) % 16) \o HexOf(Tail(octets))

RECURSIVE Zeros(_)
Zeros(n) == IF n <= 0 THEN "" ELSE "0" \o Zeros(n - 1)

\* Mutant: str(value), which writes a positive exponent as E+n.
DecimalToStr_Scientific(d) ==
    LET digits == NatToStr(d.digits)
        k == 0 - d.exponent
        sign == IF d.sign = 1 THEN "-" ELSE ""
    IN IF d.exponent > 0 THEN sign \o digits \o "E+" \o NatToStr(d.exponent)
       ELSE IF d.exponent = 0 THEN sign \o digits
       ELSE IF Len(digits) > k
       THEN sign \o SubSeq(digits, 1, Len(digits) - k) \o "."
                 \o SubSeq(digits, Len(digits) - k + 1, Len(digits))
       ELSE sign \o "0." \o Zeros(k - Len(digits)) \o digits

\* format(value, "f") of a finite Decimal
DecimalToStr(d) ==
    LET digits == NatToStr(d.digits)
        k == 0 - d.exponent
        sign == IF d.sign = 1 THEN "-" ELSE ""
    IN IF d.exponent > 0
       THEN (IF d.digits = 0 THEN sign \o "0" ELSE sign \o digits \o Zeros(d.exponent))
       ELSE IF d.exponent = 0 THEN sign \o digits
       ELSE IF Len(digits) > k
       THEN sign \o SubSeq(digits, 1, Len(digits) - k) \o "."
                 \o SubSeq(digits, Len(digits) - k + 1, Len(digits))
       ELSE sign \o "0." \o Zeros(k - Len(digits)) \o digits

\* str(key) of a dict key
KeyStr(key) == IF key.t = "int" THEN IntToStr(key.n) ELSE key.s

\* d[key] = value on a dict in insertion order
RECURSIVE Put(_, _, _, _)
Put(items, key, value, i) ==
    IF i > Len(items) THEN Append(items, Item(key, value))
    ELSE IF items[i].key = key THEN [items EXCEPT ![i] = Item(key, value)]
    ELSE Put(items, key, value, i + 1)

\* _to_json_safe, and its dict comprehension from item i on
RECURSIVE ToJsonSafe(_)
RECURSIVE EncodeItems(_, _, _)

EncodeItems(items, i, done) ==
    IF i > Len(items) THEN done
    ELSE EncodeItems(items, i + 1,
                     Put(done, VStr(KeyStr(items[i].key)), ToJsonSafe(items[i].value), 1))

ToJsonSafe(value) ==
    CASE value.t = "decimal" -> VStr(DecimalToStr(value))
      [] value.t \in {"none", "str", "int", "float", "bool"} -> value
      [] value.t \in {"bytes", "bytearray"} -> VStr("0x" \o HexOf(value.octets))
      [] value.t = "dict" -> VDict(EncodeItems(value.items, 1, << >>))
      [] value.t \in {"list", "tuple", "set"} ->
           VList([i \in 1..Len(value.items) |-> ToJsonSafe(value.items[i])])
      [] value.t = "object" ->
           IF value.hex.kind = "str"
           THEN VStr(IF StartsWith(value.hex.v, "0x") THEN value.hex.v
                     ELSE "0x" \o value.hex.v)
           ELSE IF value.attrs # None THEN ToJsonSafe(VDict(value.attrs[1]))
           ELSE VStr(value.text)

\* Receipts and their parts, as the SDK returns them
JsonLeaves ==
    {VNone, VBool(TRUE), VInt(0), VInt(-7), VFloat("1.5"), VStr("abc"), VStr("0x0102"),
     VBytes(<<1, 2>>), VBytes(<< >>), VBytes(<<255, 0, 171>>), VByteArray(<<10>>),
     VDecimal(0, 1250, -2), VDecimal(0, 5, -3), VDecimal(0, 1, 3), VDecimal(0, 0, 0),
     VDecimal(1, 125, -1), VDecimal(0, 0, 2), VDecimal(0, 0, -2), VDecimal(0, 12, 0)}

JsonParts == {VInt(-7), VStr("abc"), VBytes(<<1, 2>>), VDecimal(0, 1250, -2)}

JsonObjects ==
    {VObject(HexStr("ab"), None, "HexBytes"), VObject(HexStr("0xab"), None, "HexBytes"),
     VObject(HexRaises, None, "<Receipt>"), VObject(HexOther, None, "<Receipt>"),
     VObject(HexAbsent, None, "<Receipt>")}
    \cup {VObject(h, Some(<<Item(VStr("amount"), a), Item(VStr("hash"), VBytes(<<1, 2>>))>>),
                  "<Receipt>") :
             h \in {HexAbsent, HexRaises, HexOther}, a \in JsonParts}

JsonContainers ==
    {VList(<<a, b>>) : a \in JsonParts, b \in JsonParts}
    \cup {VTuple(<<a>>) : a \in JsonParts}
    \cup {VSet(<<a>>) : a \in JsonParts}
    \cup {VDict(<<Item(k, a)>>) : k \in {VStr("a"), VInt(1)}, a \in JsonParts}
    \cup {VDict(<<Item(VInt(1), a), Item(VStr("1"), VInt(0))>>) : a \in JsonParts}
    \cup {VList(<< >>), VDict(<< >>)}

JsonNested ==
    {VDict(<<Item(VStr("result"), VList(<<o>>))>>) : o \in JsonObjects}
    \cup {VObject(HexAbsent, Some(<<Item(VStr("inner"), o)>>), "<Outer>") : o \in JsonObjects}

JsonInputs == JsonLeaves \cup JsonObjects \cup JsonContainers \cup JsonNested

InitJson ==
    /\ clock = 0
    /\ ticks = 0
    /\ hmac_secret = ClientSecret
    /\ last = None
    /\ settings = WorkingSettings
    /\ wired = "managers"
    /\ caches = [m \in Managers |-> EmptyCache]
    /\ calls = [c \in Calls |-> IdleCall]
    /\ submissions = 0
    /\ ok_log = [op \in Operations |-> EmptyCache]
    /\ snapshot = [caches |-> [m \in Managers |-> EmptyCache], at |-> 0]
    /\ evaluated \in {Some([fn |-> "_to_json_safe", args |-> a, result |-> None]) :
                        a \in JsonInputs}

\* self._to_json_safe(value)
Encode ==
    /\ evaluated[1].fn = "_to_json_safe"
    /\ evaluated[1].result = None
    /\ evaluated' = Some([evaluated[1] EXCEPT !.result = Some(ToJsonSafe(evaluated[1].args))])
    /\ UNCHANGED <<clock, ticks, authvars, tradevars>>

NextJson == Encode

SpecJson == InitJson /\ [][NextJson]_vars

\* ------------------------------------------------------------------ idempotent calls

TtlMillis == IDEMPOTENCY_TTL_SECONDS * 1000

KeyOf(call) == call.payload[1].idempotencyKey
OpOf(call) == call.payload[1].op
OwnerOf(call) == Owner(call.payload[1].op)

\* The primitive that submits to the exchange has run for this call.
HasSubmitted(call) == call.pending # None

\* The call returned a payload (and did not raise).
Succeeded(call) == call.pc = "done" /\ call.outcome[1].ok

\* In this step the one call of the sequential service starts.
Starts == calls[1].pc = "idle" /\ calls'[1].pc # "idle"

\* The latest success of the call's operation with the call's key is at most
\* 3600 seconds old.
RepeatsSuccess(call, now) ==
    /\ HasKey(KeyOf(call))
    /\ KeyOf(call)[1] \in DOMAIN ok_log[OpOf(call)]
    /\ now - ok_log[OpOf(call)][KeyOf(call)[1]].at <= TtlMillis

\* C1. Sequential replay: when an open_position (close_position,
\* cancel_order) call carrying a non-empty key K starts at most 3600 seconds
\* after a call of that operation carrying K returned successfully, it
\* returns the payload of that success at once, having made no remote call
\* (no catalog fetch, no leverage query, no price fetch, no submission): the
\* submission count stays what it was.
C1_SequentialReplay ==
    [][Starts =>
         LET call == calls'[1]
             log == ok_log[OpOf(call)]
             key == KeyOf(call)
         IN (Guarded(OpOf(call)) /\ RepeatsSuccess(call, clock))
              => /\ call.pc = "done"
                 /\ call.outcome = Some(Returned(log[key[1]].payload))
                 /\ call.remote_calls = 0
                 /\ ~HasSubmitted(call)
                 /\ submissions' = submissions]_vars

\* A later call with the key of an earlier success has returned the stored
\* payload, exactly 3600 seconds after that success, with one submission made
\* over the whole sequence.
C1_Witness ==
    /\ Succeeded(calls[1])
    /\ HasKey(KeyOf(calls[1]))
    /\ calls[1].remote_calls = 0
    /\ clock = TtlMillis
    /\ submissions = 1

\* C11. Every mutating operation is idempotency-guarded: when a call of any
\* of the six operations carrying a non-empty key K starts at most 3600
\* seconds after a call of that operation carrying K returned successfully,
\* it returns the payload of that success without any remote call, so the
\* repeated request is not submitted a second time.
C11_EveryMutationGuarded ==
    [][Starts =>
         LET call == calls'[1]
         IN RepeatsSuccess(call, clock)
              => /\ call.pc = "done"
                 /\ call.outcome =
                      Some(Returned(ok_log[OpOf(call)][KeyOf(call)[1]].payload))
                 /\ call.remote_calls = 0
                 /\ submissions' = submissions]_vars

\* C2 as claimed. At most once per key under concurrency: within the hour no
\* two requests carrying the same key to the same manager have both had the
\* submission primitive executed.
C2_AtMostOncePerKey ==
    \A c, d \in Calls :
        (/\ c # d
         /\ calls[c].pc # "idle" /\ calls[d].pc # "idle"
         /\ HasKey(KeyOf(calls[c])) /\ KeyOf(calls[c]) = KeyOf(calls[d])
         /\ OwnerOf(calls[c]) = OwnerOf(calls[d])
         /\ clock <= TtlMillis)
        => ~(HasSubmitted(calls[c]) /\ HasSubmitted(calls[d]))

\* C2 amended. The submission primitive is executed only for a call that found
\* no live entry for its key when it looked the key up: requests that start
\* after a success for K (within the hour) never submit, requests that looked
\* K up before that success may each submit.
C2_SubmitsOnlyAfterMiss ==
    \A c \in Calls :
        (calls[c].pc # "idle" /\ HasSubmitted(calls[c])) => ~calls[c].had_live_entry

\* One request has submitted and stored its result; another with the same key
\* started afterwards and returned without submitting.
C2_Witness ==
    \E c, d \in Calls :
        /\ c # d
        /\ Succeeded(calls[c]) /\ HasSubmitted(calls[c])
        /\ Succeeded(calls[d]) /\ calls[d].had_live_entry /\ ~HasSubmitted(calls[d])
        /\ KeyOf(calls[c]) = KeyOf(calls[d])
        /\ OwnerOf(calls[c]) = OwnerOf(calls[d])

\* In this step call c returns the response of its own submission.
Finishes(c) == calls[c].pc = "submitted" /\ Succeeded(calls'[c])

\* C25. Same-key race outcome: when a request returns successfully and its
\* cache already holds a live entry under its key, stored by a request with
\* that key that finished while this one was in flight, the entry stays as
\* it is: the first finisher's result is the one later callers get.
C25_FirstFinisherWins ==
    [][\A c \in Calls :
          (/\ Finishes(c)
           /\ HasKey(KeyOf(calls[c]))
           /\ LiveEntry(caches[OwnerOf(calls[c])], KeyOf(calls[c]), clock))
            => caches'[OwnerOf(calls[c])][KeyOf(calls[c])[1]] =
                   caches[OwnerOf(calls[c])][KeyOf(calls[c])[1]]]_vars

\* The entry of a key, if the cache has one
EntryOf(cache, k) == IF k \in DOMAIN cache THEN Some(cache[k]) ELSE None

\* Call c takes this step, and the request it is serving
Acts(c) == calls'[c] # calls[c]
Serving(c) == IF calls[c].payload # None THEN calls[c].payload[1] ELSE calls'[c].payload[1]

\* The entry is the (creation time, result) pair of one success with key k
\* of an operation of manager m.
StoredByOneCall(m, k, entry) ==
    \E op \in Operations :
        /\ Owner(op) = m
        /\ k \in DOMAIN ok_log[op]
        /\ entry = [created_at |-> ok_log[op][k].at, payload |-> ok_log[op][k].payload]

\* C26. Independence of keys under concurrency: under any interleaving,
\* every entry of a cache is the whole (creation time, result) pair that one
\* successful call with that key wrote; the entry of a key is created,
\* changed or removed only in a step of a request that carries that key, to
\* the manager that owns the cache; and a request answered from the cache
\* gets the payload stored under its own key (the lookup and the store are
\* each one step of the request).
C26_KeysIndependent ==
    /\ [](\A m \in Managers : \A k \in DOMAIN caches[m] :
             StoredByOneCall(m, k, caches[m][k]))
    /\ [][/\ \A m \in Managers : \A k \in DOMAIN caches[m] \cup DOMAIN caches'[m] :
                EntryOf(caches'[m], k) # EntryOf(caches[m], k) =>
                    \E c \in Calls :
                        /\ Acts(c)
                        /\ Serving(c).idempotencyKey = Some(k)
                        /\ Owner(Serving(c).op) = m
          /\ \A c \in Calls :
                (calls[c].pc = "idle" /\ Acts(c) /\ calls'[c].had_live_entry) =>
                    calls'[c].outcome =
                        Some(Returned(caches[OwnerOf(calls'[c])][KeyOf(calls'[c])[1]].payload))
         ]_vars

\* Two requests with different keys overlapped: the one that submitted
\* first returned an hour after the one that submitted second, and each
\* key holds the result and the return time of its own request.
C26_Witness ==
    \E c, d \in Calls :
        /\ Succeeded(calls[c]) /\ Succeeded(calls[d])
        /\ KeyOf(calls[c]) = Some("k1") /\ KeyOf(calls[d]) = Some("k2")
        /\ calls[c].pending # None /\ calls[c].pending[1].receipt = 1
        /\ calls[d].pending # None /\ calls[d].pending[1].receipt = 2
        /\ DOMAIN caches[OwnerOf(calls[c])] = {"k1", "k2"}
        /\ caches[OwnerOf(calls[c])]["k1"] =
               [created_at |-> (IDEMPOTENCY_TTL_SECONDS + 1) * 1000,
                payload |-> calls[c].outcome[1].data]
        /\ caches[OwnerOf(calls[d])]["k2"] =
               [created_at |-> 0, payload |-> calls[d].outcome[1].data]

\* C28. Idempotency keys are scoped to the operation: a request answered
\* from the cache gets a result that a request of its own operation stored
\* under its key; a close_position carrying the key of a cached
\* open_position result is not answered with that result.
C28_KeysScopedToOperation ==
    \A c \in Calls :
        (calls[c].payload # None /\ calls[c].had_live_entry /\ calls[c].pc = "done") =>
            /\ calls[c].outcome[1].ok
            /\ KeyOf(calls[c])[1] \in DOMAIN ok_log[OpOf(calls[c])]
            /\ calls[c].outcome[1].data = ok_log[OpOf(calls[c])][KeyOf(calls[c])[1]].payload

\* C9. TTL expiry: an open_position, close_position or cancel_order call
\* (the operations that look their key up) whose key has an entry with
\* now - created_at <= 3600 s gets that entry's payload and the cache stays
\* as it is; when now - created_at > 3600 s the lookup removes the entry and
\* the call goes on
\* as if there were none; a call that was not answered from the cache and
\* succeeds has made a fresh submission and stores its payload under the key
\* with the current time as creation time.
C9_TtlExpiry ==
    [][/\ Starts =>
            LET call == calls'[1]
                cache == caches[OwnerOf(call)]
                key == KeyOf(call)
            IN (Guarded(OpOf(call)) /\ HasKey(key) /\ key[1] \in DOMAIN cache) =>
                 IF clock - cache[key[1]].created_at <= TtlMillis
                 THEN /\ call.outcome = Some(Returned(cache[key[1]].payload))
                      /\ caches' = caches
                 ELSE /\ caches' = [caches EXCEPT ![OwnerOf(call)] = Without(cache, key[1])]
                      /\ ~Succeeded(call)
       /\ (/\ calls[1].pc # "done" /\ Succeeded(calls'[1])
           /\ Guarded(OpOf(calls'[1])) /\ ~calls'[1].had_live_entry) =>
            LET call == calls'[1]
                key == KeyOf(call)
            IN /\ HasSubmitted(call)
               /\ HasKey(key) =>
                    /\ key[1] \in DOMAIN caches'[OwnerOf(call)]
                    /\ caches'[OwnerOf(call)][key[1]] =
                         [created_at |-> clock, payload |-> call.outcome[1].data]]_vars

\* An entry was stored, expired, was removed by a lookup 3601 s after its
\* creation, and the call that looked it up stored a new one.
C9_Witness ==
    /\ Succeeded(calls[1]) /\ HasSubmitted(calls[1]) /\ HasKey(KeyOf(calls[1]))
    /\ KeyOf(calls[1])[1] \in DOMAIN snapshot.caches[OwnerOf(calls[1])]
    /\ snapshot.caches[OwnerOf(calls[1])][KeyOf(calls[1])[1]].created_at = 0
    /\ snapshot.at = TtlMillis + 1000
    /\ caches[OwnerOf(calls[1])][KeyOf(calls[1])[1]].created_at = TtlMillis + 1000

\* The call's cache as it was when the call started
CacheAtStart(call) == snapshot.caches[OwnerOf(call)]

\* C10 as claimed. A call that ended in an error, and a call without a key,
\* has left the caches exactly as they were when it started.
C10_CacheUntouched ==
    (calls[1].pc = "done" /\ (~calls[1].outcome[1].ok \/ ~HasKey(KeyOf(calls[1]))))
        => caches = snapshot.caches

\* The cache of a call without the entry of its own key, if that entry was
\* older than 3600 s when the call started
LessExpired(call) ==
    LET key == KeyOf(call)
        cache == CacheAtStart(call)
    IN IF HasKey(key) /\ key[1] \in DOMAIN cache
          /\ snapshot.at - cache[key[1]].created_at > TtlMillis
       THEN Without(cache, key[1]) ELSE cache

\* C10 amended. The only entry a call adds or replaces is the one of its own
\* non-empty key, at the end of a run that submitted and succeeded; until
\* then, and for good when the call ends in an error or has no key, the
\* caches are what they were when the call started, less the entry of the
\* call's own key if that entry had expired (the lookup removes it).  The
\* update operations neither look a key up nor store anything.
C10_WrittenOnlyOnSuccess ==
    calls[1].pc # "idle" =>
        LET call == calls[1]
            key == KeyOf(call)
            own == OwnerOf(call)
        IN /\ \A m \in Managers \ {own} : caches[m] = snapshot.caches[m]
           /\ IF Guarded(OpOf(call)) /\ Succeeded(call) /\ HasSubmitted(call) /\ HasKey(key)
              THEN /\ key[1] \in DOMAIN caches[own]
                   /\ caches[own][key[1]].payload = call.outcome[1].data
                   /\ Without(caches[own], key[1]) = Without(LessExpired(call), key[1])
              ELSE caches[own] = IF Guarded(OpOf(call)) THEN LessExpired(call)
                                 ELSE CacheAtStart(call)

\* A call with a key whose lookup removed its expired entry has failed at the
\* submission: the cache differs from the one the call started with.
C10_Witness ==
    /\ calls[1].pc = "done" /\ ~calls[1].outcome[1].ok
    /\ HasKey(KeyOf(calls[1]))
    /\ HasSubmitted(calls[1])
    /\ caches # snapshot.caches

\* ------------------------------------------------------------------ error normalization

\* The substrings of the rules, in the order allowance, delegation,
\* safe wallet, gas, timeout
Patterns ==
    <<{"sufficient allowance", "allowance for"},
      {"delegation is not active", "delegation not active"},
      {"safe wallet not found"},
      {"delegate wallet gas is low", "insufficient funds for gas"},
      {"timeout", "timed out"}>>

RuleCodes ==
    <<"ALLOWANCE_MISSING", "DELEGATION_NOT_ACTIVE", "SAFE_WALLET_MISSING",
      "DELEGATE_GAS_LOW">>

\* The message, letter case aside, contains a substring of rule i.
Hits(i, message) == \E pattern \in Patterns[i] : Contains(Lower(message), pattern)

\* The first rule the message matches; 6, the default, when it matches none.
FirstRule(message) ==
    IF \E i \in 1..5 : Hits(i, message)
    THEN CHOOSE i \in 1..5 : Hits(i, message) /\ \A j \in 1..(i - 1) : ~Hits(j, message)
    ELSE 6

\* _normalize_sdk_error has been applied
Normalized ==
    /\ evaluated # None
    /\ evaluated[1].fn = "_normalize_sdk_error"
    /\ evaluated[1].result # None

\* C12. Normalizer priority: the error returned for a raw message is the one
\* of the first rule, in the order allowance, delegation, safe wallet, gas,
\* timeout, default, a substring of which the lower-cased message contains:
\* rules 1-4 give their code with 400 and retryable = false, the timeout rule
\* 504 and retryable = true, and a message matching no rule the caller's
\* default code with 502 and retryable = true; a message containing both
\* 'timeout' and 'sufficient allowance' gives ALLOWANCE_MISSING.
C12_NormalizerPriority ==
    Normalized =>
        LET args == evaluated[1].args
            error == evaluated[1].result[1]
            rule == FirstRule(args.raw_error)
        IN /\ rule <= 4 => /\ error.code = RuleCodes[rule]
                           /\ error.status_code = 400
                           /\ error.retryable = Some(FALSE)
           /\ rule = 5 => error.status_code = 504 /\ error.retryable = Some(TRUE)
           /\ rule = 6 => /\ error.code = args.default_code
                          /\ error.status_code = 502
                          /\ error.retryable = Some(TRUE)
           /\ (/\ Contains(Lower(args.raw_error), "timeout")
               /\ Contains(Lower(args.raw_error), "sufficient allowance"))
                => error.code = "ALLOWANCE_MISSING"

\* A message with 'timeout' and 'Sufficient Allowance' has been classified.
C12_Witness ==
    /\ Normalized
    /\ evaluated[1].args.raw_error = "gateway timeout: Sufficient Allowance not present"
    /\ evaluated[1].result[1].code = "ALLOWANCE_MISSING"
    /\ evaluated[1].result[1].retryable = Some(FALSE)

\* C13. Operation-specific timeout code: a message that contains 'timeout' or
\* 'timed out' and matches none of the rules 1-4 is reported with the code
\* <OPERATION>_TIMEOUT of the operation, status 504 and retryable = true.
C13_OperationTimeoutCode ==
    (Normalized /\ FirstRule(evaluated[1].args.raw_error) = 5) =>
        /\ evaluated[1].result[1].code = Upper(evaluated[1].args.operation) \o "_TIMEOUT"
        /\ evaluated[1].result[1].status_code = 504
        /\ evaluated[1].result[1].retryable = Some(TRUE)

\* The call in flight has ended with the error its submission raised.
SubmissionFailed(call) ==
    /\ call.pc = "done"
    /\ call.pending # None
    /\ call.pending[1].kind = "raise"

\* C14. Submission failures are normalized: an exception raised by the
\* submission primitive of any mutating operation ends the call with the
\* error of the first normalizer rule its message matches (ALLOWANCE_MISSING
\* for an allowance failure, the operation's default code when no rule
\* matches), and the details of the error carry the raw exception text and
\* the operation name.
C14_SubmissionNormalized ==
    \A c \in Calls :
        SubmissionFailed(calls[c]) =>
            LET error == calls[c].outcome[1].error
                message == calls[c].pending[1].message
                rule == FirstRule(message)
            IN /\ ~calls[c].outcome[1].ok
               /\ rule <= 4 => error.code = RuleCodes[rule] /\ error.status_code = 400
               /\ rule = 6 => error.code = DefaultCode(OpOf(calls[c]))
               /\ error.details # None
               /\ DOMAIN error.details[1] = {"error", "operation"}
               /\ error.details[1].error = message
               /\ error.details[1].operation = OpOf(calls[c])

\* ------------------------------------------------------------------ the steps of open and close

\* The price lookup of call c ends the call: it raised or returned no price.
PriceFails(c) == calls[c].pc = "price" /\ calls'[c].pc = "done"

\* C15. Price failure: when the live price cannot be obtained for a
\* market-order open or for a close, because the lookup raises or returns no
\* price, the call ends with PRICE_FETCH_FAILED, status 502 and
\* retryable = true, and nothing is submitted.
C15_PriceFailure ==
    [][\A c \in Calls :
          PriceFails(c) =>
              /\ ~calls'[c].outcome[1].ok
              /\ calls'[c].outcome[1].error.code = "PRICE_FETCH_FAILED"
              /\ calls'[c].outcome[1].error.status_code = 502
              /\ calls'[c].outcome[1].error.retryable = Some(TRUE)
              /\ calls'[c].pending = None
              /\ submissions' = submissions]_vars

\* The call is an open_position for a limit or stop order.
OpensPending(call) ==
    /\ call.payload # None
    /\ OpOf(call) = "open_position"
    /\ Upper(call.payload[1].orderType) \in {"LIMIT", "STOP"}

\* The call is at or past its submission.
AtSubmission(call) ==
    \/ call.pc \in {"submit", "submitted"}
    \/ call.pending # None

\* C16. Trigger price: an open_position for a limit or stop order without
\* triggerPrice never fetches a live price and never submits, and where it
\* ends with TRIGGER_PRICE_REQUIRED the status is 400 and retryable = false;
\* with a triggerPrice it fetches no live price either, and the price passed
\* to the submission is the triggerPrice.
C16_TriggerPrice ==
    \A c \in Calls :
        OpensPending(calls[c]) /\ ~calls[c].had_live_entry =>
            /\ calls[c].pc # "price"
            /\ calls[c].payload[1].triggerPrice = None =>
                   /\ ~AtSubmission(calls[c])
                   /\ calls[c].pc = "done" => ~calls[c].outcome[1].ok
                   /\ (calls[c].pc = "done"
                         /\ calls[c].outcome[1].error.code = "TRIGGER_PRICE_REQUIRED")
                        => /\ calls[c].outcome[1].error.status_code = 400
                           /\ calls[c].outcome[1].error.retryable = Some(FALSE)
            /\ (calls[c].payload[1].triggerPrice # None /\ AtSubmission(calls[c]))
                 => calls[c].at_price = calls[c].payload[1].triggerPrice

\* C17. Best-effort leverage ceiling: an open_position is at its submission
\* only if the ceiling query raised or answered a maximum that the requested
\* leverage does not exceed; a call that ended with LEVERAGE_TOO_HIGH has
\* status 400, submitted nothing and left the cache as it was; and a call
\* whose ceiling query raised did not end with LEVERAGE_TOO_HIGH.
C17_LeverageCeiling ==
    \A c \in Calls :
        (calls[c].payload # None /\ OpOf(calls[c]) = "open_position") =>
            /\ (AtSubmission(calls[c]) /\ ~calls[c].had_live_entry) =>
                   /\ calls[c].max_leverage # None
                   /\ \/ calls[c].max_leverage[1].kind = "raise"
                      \/ calls[c].payload[1].leverage <= calls[c].max_leverage[1].value
            /\ (/\ calls[c].pc = "done"
                /\ ~calls[c].outcome[1].ok
                /\ calls[c].outcome[1].error.code = "LEVERAGE_TOO_HIGH") =>
                   /\ calls[c].outcome[1].error.status_code = 400
                   /\ calls[c].max_leverage # None
                   /\ calls[c].max_leverage[1].kind = "value"
                   /\ calls[c].payload[1].leverage > calls[c].max_leverage[1].value
                   /\ calls[c].pending = None
                   /\ caches[OwnerOf(calls[c])] = CacheAtStart(calls[c])

\* The call is an open_position that found no live entry under its key.
OpensAfresh(call) ==
    /\ call.payload # None
    /\ OpOf(call) = "open_position"
    /\ ~call.had_live_entry

\* C24. Step order of open-position: a call that found a live entry ends
\* at once, with no remote call; otherwise the leverage ceiling is checked
\* only once the price or trigger has been determined, the call is at its
\* submission only with a pair id, a price and an answer to the ceiling query
\* and no error so far, and the cache changes only when the call has
\* returned.
C24_StepOrder ==
    \A c \in Calls :
        (calls[c].payload # None /\ OpOf(calls[c]) = "open_position") =>
            /\ calls[c].had_live_entry =>
                   calls[c].pc = "done" /\ calls[c].remote_calls = 0
            /\ OpensAfresh(calls[c]) =>
                   /\ calls[c].max_leverage # None => calls[c].at_price # None
                   /\ AtSubmission(calls[c]) =>
                          /\ calls[c].pair_id # None
                          /\ calls[c].at_price # None
                          /\ calls[c].max_leverage # None
                          /\ calls[c].outcome = None \/ calls[c].pending # None
                   /\ caches[OwnerOf(calls[c])] # CacheAtStart(calls[c]) =>
                          /\ calls[c].pc = "done"
                          /\ calls[c].outcome[1].ok

\* C27. No internal retry: within one request a mutating primitive of the
\* SDK (perform_trade, close_trade, update_sl, update_tp, cancel_limit_order,
\* update_limit_order, the faucet's token request) is invoked at most once,
\* whatever the invocation answers.
C27_NoInternalRetry == \A c \in Calls : calls[c].invoked <= 1

\* ------------------------------------------------------------------ market resolution

\* The open_position is inside resolve_pair_id, or resolve_pair_id has just
\* returned or raised and nothing else has been asked of the SDK.
InResolvePairId(call) ==
    /\ call.payload # None
    /\ OpOf(call) = "open_position"
    /\ \/ call.pc \in {"id_primary", "id_secondary", "max_leverage"}
       \/ call.pc = "done" /\ call.pair_id = None /\ call.listing # << >>

\* C18. Remote-call count of market resolution: for a purely numeric token
\* resolve_pair_id returns that number with no remote call and no listing;
\* for any other token the remote calls are those of one listing, one call
\* to the primary source and a second one, to the secondary source, only if
\* the primary did not answer a list.
C18_RemoteCallCount ==
    \A c \in Calls :
        InResolvePairId(calls[c]) =>
            LET call == calls[c]
                token == call.payload[1].market
            IN IF IsDigit(token)
               THEN /\ call.pc = "max_leverage"
                    /\ call.pair_id = Some(ParseInt(token).value)
                    /\ call.remote_calls = 0
                    /\ call.listing = << >>
               ELSE /\ call.remote_calls = Len(call.listing)
                    /\ Len(call.listing) <= 2
                    /\ Len(call.listing) = 2 => call.listing[1].kind # "list"
                    /\ call.pc = "id_primary" => call.listing = << >>
                    /\ call.pc = "id_secondary" =>
                          Len(call.listing) = 1 /\ call.listing[1].kind # "list"
                    /\ call.pc \in {"max_leverage", "done"} =>
                          /\ Len(call.listing) >= 1
                          /\ Len(call.listing) = 1 =>
                                call.listing[1].kind = "list"

\* A symbol has been resolved by the secondary source after the primary
\* failed.
C18_Witness ==
    \E c \in Calls :
        /\ calls[c].pc = "max_leverage"
        /\ ~IsDigit(calls[c].payload[1].market)
        /\ calls[c].remote_calls = 2
        /\ calls[c].listing[2].kind = "list"
        /\ calls[c].pair_id = Some(1)

\* The answer of a catalog source is no list: it raised, or what it returned
\* is malformed.
SourceFailed(answer) == answer.kind # "list"

\* C19. Catalog fallback: _fetch_pairs returns the primary source's list
\* when the primary answers a list; when the primary fails, by an exception
\* or a non-list result, it asks the secondary source and returns its list;
\* and when both sources fail it returns no list but raises
\* MARKETS_FETCH_FAILED (502, retryable).
C19_CatalogFallback ==
    \A c \in Calls :
        calls[c].listing # << >> =>
            LET call == calls[c]
                primary == call.listing[1]
            IN /\ ~SourceFailed(primary) =>
                     Len(call.listing) = 1 /\ call.listed = Some(primary.pairs)
               /\ (SourceFailed(primary) /\ Len(call.listing) = 1) =>
                     call.pc \in {"id_secondary", "sym_secondary"} /\ call.listed = None
               /\ (Len(call.listing) = 2 /\ ~SourceFailed(call.listing[2])) =>
                     call.listed = Some(call.listing[2].pairs)
               /\ (Len(call.listing) = 2 /\ SourceFailed(call.listing[2])) =>
                     /\ SourceFailed(primary)
                     /\ call.listed = None
                     /\ call.pc = "done"
                     /\ ~call.outcome[1].ok
                     /\ call.outcome[1].error.code = "MARKETS_FETCH_FAILED"
                     /\ call.outcome[1].error.status_code = 502
                     /\ call.outcome[1].error.retryable = Some(TRUE)

\* resolve_pair_id has gone through the catalog for a symbol and has just
\* returned or raised; the settings let the call go on.
SymbolLookedUp(call) ==
    /\ call.payload # None
    /\ OpOf(call) = "open_position"
    /\ ~IsDigit(call.payload[1].market)
    /\ call.listed # None
    /\ call.pair_id = None \/ call.pc = "max_leverage"
    /\ settings = WorkingSettings

\* The entry goes by the token in one of its three name fields, letter case
\* aside.
Matches(pair, token) ==
    Upper(token) \in {FieldUpper(pair.from), FieldUpper(pair.symbol), FieldUpper(pair.name)}

\* The pair id an entry carries: its id, or else its pairId
EntryId(pair) == IF pair.id # None THEN pair.id ELSE pair.pairId

\* C20. Symbol matching: for a non-numeric token resolve_pair_id returns the
\* pair id of the first entry, in list order, one of whose from, symbol and
\* name fields equals the token letter case aside; when no entry matches,
\* the open_position ends with INVALID_MARKET (400, non-retryable) without
\* any price fetch or submission.
C20_SymbolMatching ==
    \A c \in Calls :
        SymbolLookedUp(calls[c]) =>
            LET call == calls[c]
                pairs == call.listed[1]
                token == call.payload[1].market
                hits == {i \in 1..Len(pairs) : Matches(pairs[i], token)}
            IN IF hits # {}
               THEN /\ call.pc = "max_leverage"
                    /\ call.pair_id =
                         EntryId(pairs[CHOOSE i \in hits : \A j \in hits : i <= j])
               ELSE /\ call.pc = "done"
                    /\ ~call.outcome[1].ok
                    /\ call.outcome[1].error.code = "INVALID_MARKET"
                    /\ call.outcome[1].error.status_code = 400
                    /\ call.outcome[1].error.retryable = Some(FALSE)
                    /\ call.remote_calls = Len(call.listing)
                    /\ call.at_price = None
                    /\ call.pending = None

\* Entry i of the catalog is the first one listed under pair id p, its base
\* symbol is the token s letter case aside, and no earlier entry goes by s.
ListedAs(pairs, i, p, s) ==
    /\ EntryId(pairs[i]) = Some(p)
    /\ pairs[i].from # None
    /\ pairs[i].from[1] # ""
    /\ Upper(pairs[i].from[1]) = Upper(s)
    /\ \A j \in 1..(i - 1) : ~Matches(pairs[j], s) /\ EntryId(pairs[j]) # Some(p)

\* C29. Resolution round-trip: for a catalog entry with pair id p >= 0
\* (0 included) and non-empty base symbol s that no earlier entry matches,
\* resolve_pair_symbol(p) is s in upper case and resolve_pair_id(s) is p, and
\* the open or close addressed to p is not rejected with INVALID_MARKET.
C29_RoundTrip ==
    (evaluated # None /\ evaluated[1].fn = "resolve" /\ evaluated[1].result # None) =>
        LET a == evaluated[1].args
            r == evaluated[1].result[1]
        IN \A i \in 1..Len(a.pairs) :
              ListedAs(a.pairs, i, a.pair_id, a.market) =>
                  /\ r.symbol = Some(Upper(a.market))
                  /\ r.pair_id = Some(a.pair_id)
                  /\ ~r.rejected

\* ------------------------------------------------------------------ the responses of the routes

\* A request to a route has been answered.
Served ==
    /\ evaluated # None
    /\ evaluated[1].fn = "v1"
    /\ evaluated[1].result # None

\* The middleware let the request through to the handler.
Admitted ==
    DispatchResponse(hmac_secret, evaluated[1].args.request, clock).forwarded

\* C21. Boundary catch-all: on every v1 route, an exception other than an
\* OstiumServiceError that comes out of the call to the adapter, a failure to
\* find the adapter's method included, is answered with status 500 and an
\* error envelope of code OSTIUM_INTERNAL_ERROR whose details carry the
\* operation name and the text of the exception; it does not propagate.
C21_BoundaryCatchAll ==
    (Served /\ Admitted
       /\ Escaping(evaluated[1].args.route, evaluated[1].args.behaviour) # None) =>
        LET response == evaluated[1].result[1]
            exc == Escaping(evaluated[1].args.route, evaluated[1].args.behaviour)[1]
        IN /\ response.status_code = 500
           /\ "raised" \notin DOMAIN response.content
           /\ response.content.success = FALSE
           /\ response.content.error.code = "OSTIUM_INTERNAL_ERROR"
           /\ response.content.error.details # None
           /\ response.content.error.details[1].operation
                = evaluated[1].args.route.operation
           /\ response.content.error.details[1].error = exc.text

\* A KeyError raised inside open_position has been answered by the route.
C21_Witness ==
    /\ Served
    /\ Admitted
    /\ evaluated[1].args.route.operation = "positions/open"
    /\ evaluated[1].args.behaviour.type = "KeyError"
    /\ evaluated[1].result[1].content.error.code = "OSTIUM_INTERNAL_ERROR"
    /\ evaluated[1].result[1].content.error.details[1].error = "'network'"

\* C22. Response envelope: every response to a request under /v1/, the
\* rejections of the authentication and the server-misconfiguration error
\* included, has a success flag, data and no error when the flag is true,
\* error and no data when it is false, and meta with requestId and timestamp.
C22_ResponseEnvelope ==
    (Served /\ StartsWith(evaluated[1].args.request.path, "/v1/")) =>
        LET content == evaluated[1].result[1].content
        IN /\ "success" \in DOMAIN content
           /\ "meta" \in DOMAIN content
           /\ DOMAIN content.meta = {"requestId", "timestamp"}
           /\ content.success => DOMAIN content = {"success", "data", "meta"}
           /\ ~content.success => DOMAIN content = {"success", "error", "meta"}

\* C30. Routes and wired adapter agree: a request that passes the
\* authentication, is valid for its route and whose adapter call meets no
\* failure is answered with status 200 and a success envelope, never with
\* OSTIUM_INTERNAL_ERROR.
C30_RoutesImplemented ==
    (Served /\ Admitted /\ evaluated[1].args.behaviour.kind = "returns") =>
        /\ evaluated[1].result[1].status_code = 200
        /\ evaluated[1].result[1].content.success

\* ------------------------------------------------------------------ encoded values

\* _to_json_safe has been applied
Encoded ==
    /\ evaluated # None
    /\ evaluated[1].fn = "_to_json_safe"
    /\ evaluated[1].result # None

\* The value is made of null, booleans, numbers, strings, lists and maps with
\* distinct string keys only.
RECURSIVE IsJson(_)
IsJson(value) ==
    \/ value.t \in {"none", "bool", "int", "float", "str"}
    \/ /\ value.t = "list"
       /\ \A i \in 1..Len(value.items) : IsJson(value.items[i])
    \/ /\ value.t = "dict"
       /\ \A i \in 1..Len(value.items) :
             /\ value.items[i].key.t = "str"
             /\ IsJson(value.items[i].value)
             /\ \A j \in 1..Len(value.items) :
                   value.items[j].key = value.items[i].key => j = i

\* The byte that two hex digits stand for; lowercase digits only
HexValue(pair) ==
    LET digit(c) == CHOOSE n \in 0..15 : HexDigit(n) = c
    IN 16 * digit(CharAt(pair, 1)) + digit(CharAt(pair, 2))

\* The text is '0x' and two lowercase hex digits for each of the bytes.
IsHexOf(text, octets) ==
    /\ Len(text) = 2 + 2 * Len(octets)
    /\ StartsWith(text, "0x")
    /\ \A i \in 3..Len(text) : \E n \in 0..15 : HexDigit(n) = CharAt(text, i)
    /\ \A i \in 1..Len(octets) : HexValue(SubSeq(text, 2 * i + 1, 2 * i + 2)) = octets[i]

RECURSIVE Pow10(_)
Pow10(n) == IF n <= 0 THEN 1 ELSE 10 * Pow10(n - 1)

\* A fixed-point numeral read back: [-]digits[.digits] and nothing else, its
\* digits as a number and the count of digits after the point.
FixedPoint(text) ==
    LET negative == StartsWith(text, "-")
        body == IF negative THEN SubSeq(text, 2, Len(text)) ELSE text
        dots == {i \in 1..Len(body) : CharAt(body, i) = "."}
        dot == IF dots = {} THEN Len(body) + 1 ELSE CHOOSE i \in dots : TRUE
        whole == SubSeq(body, 1, dot - 1)
        frac == SubSeq(body, dot + 1, Len(body))
        ok == /\ Cardinality(dots) <= 1
              /\ Len(whole) > 0
              /\ dots # {} => Len(frac) > 0
              /\ \A i \in 1..Len(body) : i \in dots \/ CharAt(body, i) \in DOMAIN DigitVal
    IN [ok |-> ok, negative |-> negative,
        number |-> IF ok THEN DigitsValue(whole \o frac, 1, 0) ELSE 0,
        scale |-> Len(frac)]

\* The text is the decimal written out in fixed point: the same sign, value
\* and number of decimal places, no exponent.
IsFixedPointOf(text, d) ==
    LET read == FixedPoint(text)
    IN /\ read.ok
       /\ read.negative = (d.sign = 1)
       /\ d.exponent <= 0 => read.scale = 0 - d.exponent /\ read.number = d.digits
       /\ d.exponent > 0 =>
             read.scale = 0 /\ read.number = d.digits * Pow10(d.exponent)

\* C23. JSON-safe encoding: the result of _to_json_safe is made only of
\* null, booleans, numbers, strings, lists and string-keyed maps; a byte blob
\* becomes '0x' and its lowercase hex (bytes 01 02 give '0x0102'), a decimal
\* its fixed-point string without exponent ('12.50' for 12.50), a sequence
\* the list of its encoded elements, an opaque object without usable hex()
\* the map of its encoded attributes; and encoding the result again returns
\* it unchanged.
C23_JsonSafe ==
    Encoded =>
        LET value == evaluated[1].args
            result == evaluated[1].result[1]
        IN /\ IsJson(result)
           /\ value.t \in {"bytes", "bytearray"} =>
                 result.t = "str" /\ IsHexOf(result.s, value.octets)
           /\ value = VBytes(<<1, 2>>) => result = VStr("0x0102")
           /\ value.t = "decimal" =>
                 result.t = "str" /\ IsFixedPointOf(result.s, value)
           /\ value = VDecimal(0, 1250, -2) => result = VStr("12.50")
           /\ value.t \in {"list", "tuple", "set"} =>
                 /\ result.t = "list"
                 /\ Len(result.items) = Len(value.items)
                 /\ \A i \in 1..Len(value.items) :
                       result.items[i] = ToJsonSafe(value.items[i])
           /\ (value.t = "object" /\ value.hex.kind # "str" /\ value.attrs # None) =>
                 /\ result.t = "dict"
                 /\ Len(result.items) = Len(value.attrs[1])
                 /\ \A i \in 1..Len(value.attrs[1]) :
                       /\ result.items[i].key = value.attrs[1][i].key
                       /\ result.items[i].value = ToJsonSafe(value.attrs[1][i].value)
           /\ ToJsonSafe(result) = result

\* An object holding an object with a decimal and a byte blob among its
\* attributes has been encoded.
C23_Witness ==
    /\ Encoded
    /\ evaluated[1].args.t = "object"
    /\ evaluated[1].result[1]
         = VDict(<<Item(VStr("inner"),
                        VDict(<<Item(VStr("amount"), VStr("12.50")),
                                Item(VStr("hash"), VStr("0x0102"))>>))>>)

\* ------------------------------------------------------------------ the gate's checks, one by one

IsV1(r) == StartsWith(r.path, "/v1/")
IsExempt(r) == r.path = "/health" \/ r.path = "/ready" \/ ~IsV1(r)

HasBothHeaders(r) ==
    /\ r.timestamp # None /\ r.timestamp # Some("")
    /\ r.signature # None /\ r.signature # Some(EmptySignature)

TimestampParses(r) == r.timestamp # None /\ ParseInt(r.timestamp[1]).ok

\* |now - timestamp| of a request whose timestamp parses
Age(r, now_ms) == Abs(now_ms - ParseInt(r.timestamp[1]).value)

DigestMatches(secret, r) ==
    /\ r.timestamp # None /\ r.signature # None
    /\ r.signature[1] =
         HexDigest(secret, CanonicalMessage(r.timestamp[1], r.method, r.path, r.body))

PassesEveryCheck(secret, r, now_ms) ==
    /\ secret # ""
    /\ HasBothHeaders(r)
    /\ TimestampParses(r)
    /\ Age(r, now_ms) <= hmac_timestamp_tolerance_ms
    /\ DigestMatches(secret, r)

\* The number of components in which the request differs from what was
\* signed (the method compared without regard to letter case).
Differences(t, r) ==
    (IF r.timestamp # Some(t.timestamp) THEN 1 ELSE 0)
    + (IF Upper(r.method) # Upper(t.method) THEN 1 ELSE 0)
    + (IF r.path # t.path THEN 1 ELSE 0)
    + (IF r.body # t.body THEN 1 ELSE 0)

\* C3: the handler is invoked for a request if and only if its path is
\* /health or /ready, or does not start with /v1/, or the request passes
\* every check in turn (secret, headers, timestamp format, window, digest).
C3_AuthGate ==
    last # None =>
        (last[1].response.forwarded <=>
            (IsExempt(last[1].request)
             \/ PassesEveryCheck(hmac_secret, last[1].request, last[1].at)))

C3_Witness ==
    /\ last # None
    /\ IsV1(last[1].request)
    /\ last[1].response.forwarded
    /\ last[1].request.method = "post"

\* C4: a /v1/ request with a configured secret, both headers, a timestamp
\* that parses and a signature equal to the HMAC of its canonical message is
\* accepted if and only if |now - timestamp| <= tolerance: a difference of
\* exactly the tolerance is accepted, one of tolerance + 1 is rejected, in
\* the past and in the future alike.
C4_TimeWindow ==
    (/\ last # None
     /\ IsV1(last[1].request)
     /\ hmac_secret # ""
     /\ HasBothHeaders(last[1].request)
     /\ TimestampParses(last[1].request)
     /\ DigestMatches(hmac_secret, last[1].request))
    => /\ last[1].response.forwarded
            <=> Age(last[1].request, last[1].at) <= hmac_timestamp_tolerance_ms
       /\ Age(last[1].request, last[1].at) = hmac_timestamp_tolerance_ms
            => last[1].response.forwarded
       /\ Age(last[1].request, last[1].at) = hmac_timestamp_tolerance_ms + 1
            => ~last[1].response.forwarded

\* A request exactly `tolerance` old is accepted.
C4_Witness ==
    /\ last # None
    /\ IsV1(last[1].request)
    /\ TimestampParses(last[1].request)
    /\ last[1].at - ParseInt(last[1].request.timestamp[1]).value
         = hmac_timestamp_tolerance_ms
    /\ last[1].response.forwarded

\* The request is a signed /v1/ request presented again after it was accepted.
ReplayOfAccepted ==
    /\ last # None
    /\ IsV1(last[1].request)
    /\ last[1].previous # None
    /\ last[1].previous[1].forwarded

\* C5 as stated: after a signed request has been accepted once, the
\* byte-identical request presented again is rejected.
C5_ReplayRejected == ReplayOfAccepted => ~last[1].response.forwarded

\* C5 as amended: a signed request that was accepted and is presented again
\* byte-identically is rejected if and only if by then its timestamp is
\* more than the tolerance away from the clock; within the tolerance it is
\* accepted again.
C5_ReplayWithinWindow ==
    ReplayOfAccepted =>
        (~last[1].response.forwarded
            <=> Age(last[1].request, last[1].at) > hmac_timestamp_tolerance_ms)

C5_Witness == ReplayOfAccepted /\ ~last[1].response.forwarded

\* A rejection the client caused: any response of the gate itself other
\* than the unconfigured-secret error.
ClientRejection(resp) == ~resp.forwarded /\ resp.code # "SERVER_MISCONFIGURED"

\* C6: every client-caused rejection yields the same client-visible
\* response (status, code and message), whatever check failed.
C6_GenericRejection ==
    (/\ last # None
     /\ last[1].previous # None
     /\ ClientRejection(last[1].previous[1])
     /\ ClientRejection(last[1].response))
    => last[1].response = last[1].previous[1]

\* C7: with an empty HMAC secret every /v1/ request is answered with
\* SERVER_MISCONFIGURED and status 500, whatever its headers, timestamp and
\* signature, and the handler is not invoked.
C7_Misconfigured ==
    (last # None /\ hmac_secret = "" /\ IsV1(last[1].request))
    => /\ ~last[1].response.forwarded
       /\ last[1].response.status_code = 500
       /\ last[1].response.code = "SERVER_MISCONFIGURED"

\* The secret is empty and the request has no timestamp header either.
C7_Witness ==
    /\ last # None
    /\ hmac_secret = ""
    /\ IsV1(last[1].request)
    /\ last[1].request.timestamp = None
    /\ last[1].response.code = "SERVER_MISCONFIGURED"

\* The request was accepted on a signature the client made.
AcceptedOnSignature ==
    /\ last # None
    /\ IsV1(last[1].request)
    /\ last[1].response.forwarded
    /\ last[1].signed # None

\* C8 as stated: a signature valid for one (timestamp, method, path, body)
\* is never accepted for a request that differs from it in any of the four
\* components (letter case of the method aside).
C8_SignatureBinding ==
    AcceptedOnSignature => Differences(last[1].signed[1], last[1].request) = 0

\* C8 as amended: the letter case of the method does not change the expected
\* signature, and a signature valid for one (timestamp, method, path, body)
\* is never accepted for a request that differs from it in exactly one of
\* the four components.
C8_SingleComponentBinding ==
    /\ AcceptedOnSignature => Differences(last[1].signed[1], last[1].request) # 1
    /\ (/\ last # None
        /\ last[1].signed # None
        /\ last[1].signed[1].key = hmac_secret
        /\ Differences(last[1].signed[1], last[1].request) = 0
        /\ Age(last[1].request, last[1].at) <= hmac_timestamp_tolerance_ms)
       => last[1].response.forwarded

\* A request that differs from the signed one in its body alone is rejected
\* for its signature.
C8_Witness ==
    /\ last # None
    /\ last[1].signed # None
    /\ last[1].signed[1].key = hmac_secret
    /\ Differences(last[1].signed[1], last[1].request) = 1
    /\ last[1].request.body # last[1].signed[1].body
    /\ last[1].response.message = "Invalid signature"

====
